---------------------------- MODULE Spec2Model ----------------------------
(***************************************************************************)
(* A model of the cloud-hypervisor VM core (vmm/src/vm.rs): construction   *)
(* of the VM (Vm::new), the event poller and its dispatch table            *)
(* (EpollContext), the CPUID patch (Vm::patch_cpuid), the start of the     *)
(* vCPU threads behind a barrier (Vm::start), the vCPU exit loop and the   *)
(* monitor's event loop (Vm::control_loop).                                *)
(*                                                                         *)
(* Threads are the monitor (the caller of Vm::new / Vm::start) and one     *)
(* thread per vCPU.  Calls into the backend, the host kernel and the       *)
(* device crates return results the model draws from small sets.           *)
(***************************************************************************)
EXTENDS Integers, Sequences, FiniteSets, TLC

(***************************************************************************)
(* Bounds of the model.                                                    *)
(***************************************************************************)
\* Largest vcpu_count explored with every interleaving of the threads.
MaxVcpus == 2
\* Bytes typed on host stdin, one at a time, in the thread model.
MaxTyped == 1
\* Largest value the exit_evt counter is driven to.
MaxExitEvt == 1
\* Entries of a backend-reported CPUID image.
MaxCpuidEntries == 2
\* Successful registrations made on one EpollContext.
MaxRegistrations == 3
\* Bursts of bytes pasted on host stdin in the stdin model.
MaxBursts == 1

(***************************************************************************)
(* Program constants.                                                      *)
(***************************************************************************)
ECX_HYPERVISOR_SHIFT == 31
\* The length of `out` in control_loop's Stdin arm.
OUT_LEN == 64
\* The IRQ line serial_evt is registered on.
SERIAL_IRQ == 4
\* I/O port assignments of register_devices.
SERIAL_BASE == 1016
SERIAL_LEN == 8
I8042_BASE == 97
I8042_LEN == 4
PCI_BASE == 3320
PCI_LEN == 8
\* The flag of the PIT configuration (KVM_PIT_SPEAKER_DUMMY).
KVM_PIT_SPEAKER_DUMMY == 1
\* Width of vcpu_count (u8).
U8_BITS == 8
\* Width of a CPUID register (u32).
U32_BITS == 32

None == "None"

Min(a, b) == IF a < b THEN a ELSE b

RECURSIVE Pow2(_)
Pow2(n) == IF n = 0 THEN 1 ELSE 2 * Pow2(n - 1)

(***************************************************************************)
(* CPUID.  A 32-bit register is the set of the positions of its one bits,  *)
(* so that `|` is set union and `1 << n` is {n} (n < 32).                  *)
(***************************************************************************)
Shl1(n) == IF n < U32_BITS THEN {n} ELSE {}

\* An exclusive or in the place of the or.
BitXor(a, b) == (a \ b) \cup (b \ a)

\* a | b.
BitOr(a, b) == a \cup b

\* A patch that does not look at the index.
PatchEntryNoIndexCheck(entry) ==
    IF entry.function = 1
    THEN [entry EXCEPT !.ecx = BitOr(entry.ecx, Shl1(ECX_HYPERVISOR_SHIFT))]
    ELSE entry

\* The body of patch_cpuid's loop, for one entry:
\* if entry.function == 1 && entry.index == 0 { entry.ecx |= 1 << SHIFT }.
PatchEntry(entry) ==
    IF entry.function = 1
    THEN IF entry.index = 0
         THEN [entry EXCEPT !.ecx = BitOr(entry.ecx, Shl1(ECX_HYPERVISOR_SHIFT))]
         ELSE entry
    ELSE entry

\* Vm::patch_cpuid: entries.iter_mut() visits every entry in place, in order.
patch_cpuid(image) == [k \in 1..Len(image) |-> PatchEntry(image[k])]

(***************************************************************************)
(* EpollContext.  A context is the dispatch table together with the        *)
(* kernel's interest list (fd, data) of the epoll descriptor.              *)
(***************************************************************************)
EpollContextNew == [dispatch_table |-> <<None>>, interest |-> {}]

\* epoll::ctl(EPOLL_CTL_ADD) fails (EEXIST) on a descriptor already in the
\* interest list; it can also fail for reasons of the host.
CtlAddCanSucceed(ctx, fd) == \A r \in ctx.interest : r.fd # fd

\* add_event with the token computed one too far.
add_event_off_by_one(ctx, fd, token, ctl_ok) ==
    IF ctl_ok
    THEN [dispatch_table |-> Append(ctx.dispatch_table, token),
          interest |-> ctx.interest \cup
                         {[fd |-> fd, data |-> Len(ctx.dispatch_table) + 1]}]
    ELSE ctx

\* EpollContext::add_event: dispatch_index is the table length before the
\* push; a failing ctl returns early (`?`) and pushes nothing.
add_event(ctx, fd, token, ctl_ok) ==
    IF ctl_ok
    THEN [dispatch_table |-> Append(ctx.dispatch_table, token),
          interest |-> ctx.interest \cup
                         {[fd |-> fd, data |-> Len(ctx.dispatch_table)]}]
    ELSE ctx

\* EpollContext::add_stdin.
add_stdin(ctx, ctl_ok) ==
    IF ctl_ok
    THEN [dispatch_table |-> Append(ctx.dispatch_table, "Stdin"),
          interest |-> ctx.interest \cup
                         {[fd |-> "stdin", data |-> Len(ctx.dispatch_table)]}]
    ELSE ctx

(***************************************************************************)
(* The I/O bus (devices::Bus): a map from port ranges to devices, here the *)
(* set of its entries [base, len, dev].                                    *)
(***************************************************************************)
RangeOverlaps(r, base, len) == r.base < base + len /\ base < r.base + r.len

\* Bus::insert: fails on an empty range and on a range that overlaps an
\* entry of the map, and then leaves the map as it is.
BusInsert(bus, dev, base, len) ==
    IF len = 0 \/ \E r \in bus : RangeOverlaps(r, base, len)
    THEN [ok |-> FALSE, bus |-> bus]
    ELSE [ok |-> TRUE, bus |-> bus \cup {[base |-> base, len |-> len, dev |-> dev]}]

\* Bus::read / Bus::write find the entry with the largest base <= addr and
\* hit it when addr < base + len.  The result is the set of entries hit
\* (one or none).
BusResolve(bus, addr) ==
    {r \in bus : /\ r.base <= addr
                 /\ addr < r.base + r.len
                 /\ \A q \in bus : q.base <= addr => q.base <= r.base}

\* register_devices that stops after the serial device.
register_devices_serial_only(bus) ==
    BusInsert(bus, "serial", SERIAL_BASE, SERIAL_LEN)

\* register_devices with the i8042 placed inside the range of the serial
\* device.
register_devices_i8042_on_serial(bus) ==
    LET r1 == BusInsert(bus, "serial", SERIAL_BASE, SERIAL_LEN) IN
    IF ~r1.ok THEN r1 ELSE
    LET r2 == BusInsert(r1.bus, "i8042", SERIAL_BASE + 4, I8042_LEN) IN
    IF ~r2.ok THEN r2 ELSE
    BusInsert(r2.bus, "pci", PCI_BASE, PCI_LEN)

\* DeviceManager::register_devices: three inserts, each returning early
\* (`?`) on failure.
register_devices(bus) ==
    LET r1 == BusInsert(bus, "serial", SERIAL_BASE, SERIAL_LEN) IN
    IF ~r1.ok THEN r1 ELSE
    LET r2 == BusInsert(r1.bus, "i8042", I8042_BASE, I8042_LEN) IN
    IF ~r2.ok THEN r2 ELSE
    BusInsert(r2.bus, "pci", PCI_BASE, PCI_LEN)

Devices == {"serial", "i8042", "pci"}

\* The holders of a device's Mutex.
Free == <<"free", 0>>
MonitorThread == <<"monitor", 0>>
VcpuThread(i) == <<"vcpu", i>>

\* The state of a Mutex whose holder panicked while it held it.
Poisoned == <<"poisoned", 0>>

\* A lock() that never waits for the holder of the Mutex.
MutexFreeAlways(locks, dev) == TRUE

\* Mutex::lock on a device (Arc<Mutex<..>>) goes through only when no
\* thread holds the Mutex; until then the caller waits.
MutexFree(locks, dev) == locks[dev] = Free

\* A guard whose drop leaves the Mutex locked.
MutexUnlockNever(locks, dev) == locks

\* The drop of the MutexGuard at the end of the statement that took it.
MutexUnlock(locks, dev) == [locks EXCEPT ![dev] = Free]

(***************************************************************************)
(* State.                                                                  *)
(***************************************************************************)
VARIABLES
    vcpu_count,      \* config.vcpu_count
    m_pc,            \* where the monitor thread is
    m_ret,           \* what the last call of the monitor returned
    exit_status,     \* {} while the process runs, {s} once it exited with s
    kvm_calls,       \* the VM-level calls made on the backend, in order
    region_idx,      \* with_regions: the index of the next region
    regions,         \* the number of regions of guest memory
    cpuid_reported,  \* the CPUID image get_supported_cpuid returned
    cpuid,           \* Vm.cpuid
    epoll,           \* Vm.epoll: dispatch table and interest list
    supplied,        \* the kinds supplied by the successful registrations
    io_bus,          \* devices.io_bus
    exit_evt,        \* the counter of exit_evt
    serial_in,       \* the receive queue of the serial UART
    dev_lock,        \* per device, the thread holding its Mutex
    stdin_typed,     \* the number of bytes written to host stdin so far
    stdin_pos,       \* the number of bytes read from host stdin so far
    stdin_hup,       \* whether the writer of host stdin has closed it
    barrier,         \* vcpu_thread_barrier
    m_gen,           \* the monitor's local generation while it waits
    cpu_id,          \* the loop variable of Vm::start
    vcpus,           \* the join handles pushed by Vm::start
    arrived,         \* the threads that have called wait() on the barrier
    events,          \* the events returned by the last epoll::wait
    ev_idx,          \* the event the loop of control_loop is at
    out,             \* control_loop's buffer `out`
    count,           \* the count returned by read_raw
    v_pc,            \* per vCPU, where its thread is
    v_bus,           \* per vCPU, its clone of the I/O bus
    v_gen,           \* per vCPU, its local generation while it waits
    v_cur,           \* per vCPU, the result of its last run()
    v_calls,         \* per vCPU, the calls made on its handle: <<call, thread>>
    handler_installs \* calls of register_signal_handler that succeeded

newVars == <<kvm_calls, region_idx, regions, cpuid_reported, cpuid>>
epollVars == <<epoll, supplied>>
devVars == <<io_bus, exit_evt, serial_in, dev_lock>>
stdinVars == <<stdin_typed, stdin_pos, stdin_hup>>
startVars == <<barrier, m_gen, cpu_id, vcpus, arrived>>
loopVars == <<events, ev_idx, out, count>>
vcpuVars == <<v_pc, v_bus, v_gen, v_cur, v_calls, handler_installs>>
vars == <<vcpu_count, m_pc, m_ret, exit_status, newVars, epollVars, devVars,
          stdinVars, startVars, loopVars, vcpuVars>>

Running == exit_status = {}

NoExit == [kind |-> "none", port |-> 0, data |-> 0, errno |-> ""]

\* The CPUID images the backend reports in the thread model.
MainCpuidImages ==
    {<<[function |-> 0, index |-> 0, ecx |-> {0}, edx |-> {}],
       [function |-> 1, index |-> 0, ecx |-> {0, 5}, edx |-> {0}]>>}

InitWith(counts, pcs) ==
    /\ vcpu_count \in counts
    /\ m_pc \in pcs
    /\ m_ret = "none"
    /\ exit_status = {}
    /\ kvm_calls = <<>>
    /\ region_idx = 0
    /\ regions = 0
    /\ cpuid_reported = <<>>
    /\ cpuid = <<>>
    /\ epoll = [dispatch_table |-> <<>>, interest |-> {}]
    /\ supplied = <<>>
    /\ io_bus = {}
    /\ exit_evt = 0
    /\ serial_in = <<>>
    /\ dev_lock = [d \in Devices |-> Free]
    /\ stdin_typed = 0
    /\ stdin_pos = 0
    /\ stdin_hup = FALSE
    /\ barrier = [num_threads |-> 0, count |-> 0, generation_id |-> 0]
    /\ m_gen = 0
    /\ cpu_id = 0
    /\ vcpus = <<>>
    /\ arrived = {}
    /\ events = <<>>
    /\ ev_idx = 0
    /\ out = <<>>
    /\ count = 0
    /\ v_pc = [i \in 0..(vcpu_count - 1) |-> "unborn"]
    /\ v_bus = [i \in 0..(vcpu_count - 1) |-> {}]
    /\ v_gen = [i \in 0..(vcpu_count - 1) |-> 0]
    /\ v_cur = [i \in 0..(vcpu_count - 1) |-> NoExit]
    /\ v_calls = [i \in 0..(vcpu_count - 1) |-> <<>>]
    /\ handler_installs = 0

Init == InitWith(0..MaxVcpus, {"new_open_kernel"})

(***************************************************************************)
(* Vm::new.  Every step returns early with its error kind when the call it *)
(* makes fails; no Vm value exists then.                                   *)
(***************************************************************************)
\* A failing step that hands out a Vm all the same.
NewFailHandsOutVm(kind) ==
    /\ m_pc' = "idle"
    /\ m_ret' = kind

\* A step of Vm::new that fails: `.map_err(kind)?`.
NewFail(kind) ==
    /\ m_pc' = "no_vm"
    /\ m_ret' = kind

NewOpenKernel ==
    /\ Running /\ m_pc = "new_open_kernel"
    /\ \/ /\ m_pc' = "new_create_vm"
          /\ UNCHANGED m_ret
       \/ NewFail("KernelFile")
    /\ UNCHANGED <<vcpu_count, exit_status, newVars, epollVars, devVars,
                   stdinVars, startVars, loopVars, vcpuVars>>

NewCreateVm ==
    /\ Running /\ m_pc = "new_create_vm"
    /\ \/ /\ m_pc' = "new_guest_memory"
          /\ kvm_calls' = Append(kvm_calls, <<"create_vm", 0>>)
          /\ UNCHANGED m_ret
       \/ /\ NewFail("VmCreate")
          /\ UNCHANGED kvm_calls
    /\ UNCHANGED <<vcpu_count, exit_status, region_idx, regions, cpuid_reported, cpuid,
                   epollVars, devVars, stdinVars, startVars, loopVars, vcpuVars>>

\* arch_memory_regions gives one region, or two around the 32-bit gap.
NewGuestMemory ==
    /\ Running /\ m_pc = "new_guest_memory"
    /\ \/ /\ \E n \in 1..2 : regions' = n
          /\ region_idx' = 0
          /\ m_pc' = "new_with_regions"
          /\ UNCHANGED m_ret
       \/ /\ NewFail("GuestMemory")
          /\ UNCHANGED <<regions, region_idx>>
    /\ UNCHANGED <<vcpu_count, exit_status, kvm_calls, cpuid_reported, cpuid,
                   epollVars, devVars, stdinVars, startVars, loopVars, vcpuVars>>

\* One turn of with_regions: slot = index; the first failure ends it.
NewRegisterRegion ==
    /\ Running /\ m_pc = "new_with_regions"
    /\ \/ /\ kvm_calls' = Append(kvm_calls, <<"set_user_memory_region", region_idx>>)
          /\ region_idx' = region_idx + 1
          /\ m_pc' = IF region_idx + 1 < regions
                     THEN "new_with_regions" ELSE "new_set_tss"
          /\ UNCHANGED m_ret
       \/ /\ NewFail("GuestMemory")
          /\ UNCHANGED <<kvm_calls, region_idx>>
    /\ UNCHANGED <<vcpu_count, exit_status, regions, cpuid_reported, cpuid,
                   epollVars, devVars, stdinVars, startVars, loopVars, vcpuVars>>

\* A step of Vm::new that is one call on the VM descriptor.
NewVmCall(at, call, arg, next) ==
    /\ Running /\ m_pc = at
    /\ \/ /\ kvm_calls' = Append(kvm_calls, <<call, arg>>)
          /\ m_pc' = next
          /\ UNCHANGED m_ret
       \/ /\ NewFail("VmSetup")
          /\ UNCHANGED kvm_calls
    /\ UNCHANGED <<vcpu_count, exit_status, region_idx, regions, cpuid_reported, cpuid,
                   epollVars, devVars, stdinVars, startVars, loopVars, vcpuVars>>

\* A Vm::new that goes from the TSS address straight to the PIT.
NewSetTssSkipsIrqChip ==
    NewVmCall("new_set_tss", "set_tss_address", 0, "new_pit2")

NewSetTss == NewVmCall("new_set_tss", "set_tss_address", 0, "new_irq_chip")

NewCreateIrqChip == NewVmCall("new_irq_chip", "create_irq_chip", 0, "new_pit2")

NewCreatePit2 ==
    NewVmCall("new_pit2", "create_pit2", KVM_PIT_SPEAKER_DUMMY, "new_cpuid")

\* get_supported_cpuid, which reports one of `images`, then
\* Vm::patch_cpuid on what it reported.
NewCpuidFrom(images) ==
    /\ Running /\ m_pc = "new_cpuid"
    /\ \/ /\ \E image \in images :
               /\ cpuid_reported' = image
               /\ cpuid' = patch_cpuid(image)
          /\ kvm_calls' = Append(kvm_calls, <<"get_supported_cpuid", 0>>)
          /\ m_pc' = "new_device_manager"
          /\ UNCHANGED m_ret
       \/ /\ NewFail("VmSetup")
          /\ UNCHANGED <<cpuid_reported, cpuid, kvm_calls>>
    /\ UNCHANGED <<vcpu_count, exit_status, region_idx, regions,
                   epollVars, devVars, stdinVars, startVars, loopVars, vcpuVars>>

NewCpuid == NewCpuidFrom(MainCpuidImages)

\* DeviceManager::new: an empty bus, the two event channels at zero.
NewDeviceManager ==
    /\ Running /\ m_pc = "new_device_manager"
    /\ \/ /\ io_bus' = {}
          /\ exit_evt' = 0
          /\ serial_in' = <<>>
          /\ dev_lock' = [d \in Devices |-> Free]
          /\ m_pc' = "new_irqfd"
          /\ UNCHANGED m_ret
       \/ /\ NewFail("DeviceManager")
          /\ UNCHANGED devVars
    /\ UNCHANGED <<vcpu_count, exit_status, newVars,
                   epollVars, stdinVars, startVars, loopVars, vcpuVars>>

NewRegisterIrqfd ==
    /\ Running /\ m_pc = "new_irqfd"
    /\ \/ /\ kvm_calls' = Append(kvm_calls, <<"register_irqfd", SERIAL_IRQ>>)
          /\ m_pc' = "new_epoll"
          /\ UNCHANGED m_ret
       \/ /\ NewFail("Irq")
          /\ UNCHANGED kvm_calls
    /\ UNCHANGED <<vcpu_count, exit_status, region_idx, regions, cpuid_reported, cpuid,
                   epollVars, devVars, stdinVars, startVars, loopVars, vcpuVars>>

NewEpoll ==
    /\ Running /\ m_pc = "new_epoll"
    /\ \/ /\ epoll' = EpollContextNew
          /\ m_pc' = "new_add_stdin"
          /\ UNCHANGED m_ret
       \/ /\ NewFail("EpollError")
          /\ UNCHANGED epoll
    /\ UNCHANGED <<vcpu_count, exit_status, newVars, supplied,
                   devVars, stdinVars, startVars, loopVars, vcpuVars>>

NewAddStdin ==
    /\ Running /\ m_pc = "new_add_stdin"
    /\ \E ctl_ok \in {b \in BOOLEAN : b => CtlAddCanSucceed(epoll, "stdin")} :
          /\ epoll' = add_stdin(epoll, ctl_ok)
          /\ IF ctl_ok
             THEN /\ supplied' = Append(supplied, "Stdin")
                  /\ m_pc' = "new_add_exit"
                  /\ UNCHANGED m_ret
             ELSE /\ NewFail("EpollError")
                  /\ UNCHANGED supplied
    /\ UNCHANGED <<vcpu_count, exit_status, newVars,
                   devVars, stdinVars, startVars, loopVars, vcpuVars>>

\* add_event(&device_manager.exit_evt, EpollDispatch::Exit), then Ok(Vm).
NewAddExitEvent ==
    /\ Running /\ m_pc = "new_add_exit"
    /\ \E ctl_ok \in {b \in BOOLEAN : b => CtlAddCanSucceed(epoll, "exit_evt")} :
          /\ epoll' = add_event(epoll, "exit_evt", "Exit", ctl_ok)
          /\ IF ctl_ok
             THEN /\ supplied' = Append(supplied, "Exit")
                  /\ m_pc' = "idle"
                  /\ m_ret' = "Ok"
             ELSE /\ NewFail("EpollError")
                  /\ UNCHANGED supplied
    /\ UNCHANGED <<vcpu_count, exit_status, newVars,
                   devVars, stdinVars, startVars, loopVars, vcpuVars>>

VmNew ==
    \/ NewOpenKernel \/ NewCreateVm \/ NewGuestMemory \/ NewRegisterRegion
    \/ NewSetTss \/ NewCreateIrqChip \/ NewCreatePit2 \/ NewCpuid
    \/ NewDeviceManager \/ NewRegisterIrqfd \/ NewEpoll
    \/ NewAddStdin \/ NewAddExitEvent

(***************************************************************************)
(* std::sync::Barrier, as Vm::start uses it.                               *)
(***************************************************************************)
\* Barrier::new(n).
BarrierNew(n) == [num_threads |-> n, count |-> 0, generation_id |-> 0]

\* Barrier::wait up to the point where the caller blocks or passes: the
\* caller is counted; the last one to arrive resets the count and starts a
\* new generation, the others block until the generation changes.
BarrierArrive(b) ==
    IF b.count + 1 < b.num_threads
    THEN [blocks |-> TRUE, barrier |-> [b EXCEPT !.count = b.count + 1]]
    ELSE [blocks |-> FALSE,
          barrier |-> [b EXCEPT !.count = 0,
                                !.generation_id = b.generation_id + 1]]

\* `vcpu_count + 1` in u8, as a build without overflow checks computes it.
BarrierArity(n) == (n + 1) % Pow2(U8_BITS)

\* Whether `vcpu_count + 1` overflows u8 (a panic in a build with overflow
\* checks).
ArityOverflows(n) == n + 1 >= Pow2(U8_BITS)

(***************************************************************************)
(* Vm::start, on the monitor thread.                                       *)
(***************************************************************************)
\* start returns Err(kind) to its caller (`?`).
StartFail(kind) ==
    /\ m_pc' = "idle"
    /\ m_ret' = kind

\* A loop over 0..vcpu_count - 1.
AfterLoopTestOneShort(next_id) ==
    IF next_id + 1 < vcpu_count THEN "start_clone" ELSE "start_wait"

\* The loop `for cpu_id in 0..vcpu_count`: the body for the next id, or
\* the code after the loop.
AfterLoopTest(next_id) ==
    IF next_id < vcpu_count THEN "start_clone" ELSE "start_wait"

\* self.devices.register_devices()?
StartRegisterDevices ==
    /\ Running /\ m_pc = "idle"
    /\ LET r == register_devices(io_bus) IN
          /\ io_bus' = r.bus
          /\ IF r.ok
             THEN /\ m_pc' = "start_barrier"
                  /\ m_ret' = "none"
             ELSE StartFail("BusError")
    /\ UNCHANGED <<vcpu_count, exit_status, newVars, epollVars, exit_evt,
                   serial_in, dev_lock, stdinVars, startVars, loopVars, vcpuVars>>

\* vcpus = Vec::with_capacity(..); Barrier::new((vcpu_count + 1) as usize).
StartCreateBarrier ==
    /\ Running /\ m_pc = "start_barrier"
    /\ \/ /\ barrier' = BarrierNew(BarrierArity(vcpu_count))
          /\ vcpus' = <<>>
          /\ cpu_id' = 0
          /\ arrived' = {}
          /\ m_pc' = AfterLoopTest(0)
       \/ /\ ArityOverflows(vcpu_count)
          /\ m_pc' = "panicked"
          /\ UNCHANGED <<barrier, vcpus, cpu_id, arrived>>
    /\ UNCHANGED <<vcpu_count, m_ret, exit_status, newVars, epollVars, devVars,
                   stdinVars, m_gen, loopVars, vcpuVars>>

\* let io_bus = self.devices.io_bus.clone()
StartCloneBus ==
    /\ Running /\ m_pc = "start_clone"
    /\ v_bus' = [v_bus EXCEPT ![cpu_id] = io_bus]
    /\ m_pc' = "start_vcpu_new"
    /\ UNCHANGED <<vcpu_count, m_ret, exit_status, newVars, epollVars, devVars,
                   stdinVars, startVars, loopVars, v_pc, v_gen, v_cur, v_calls,
                   handler_installs>>

\* Vcpu::new(cpu_id, &self)?
StartVcpuNew ==
    /\ Running /\ m_pc = "start_vcpu_new"
    /\ \/ /\ v_pc' = [v_pc EXCEPT ![cpu_id] = "created"]
          /\ v_calls' = [v_calls EXCEPT ![cpu_id] = <<<<"create_vcpu", MonitorThread, <<>>>>>>]
          /\ m_pc' = "start_configure"
          /\ UNCHANGED m_ret
       \/ /\ StartFail("VcpuFd")
          /\ UNCHANGED <<v_pc, v_calls>>
    /\ UNCHANGED <<vcpu_count, exit_status, newVars, epollVars, devVars,
                   stdinVars, startVars, loopVars, v_bus, v_gen, v_cur,
                   handler_installs>>

\* configure with the general-purpose registers set before the MSRs.
ConfigureStepsRegsFirst ==
    << <<"set_cpuid2", "SetSupportedCpusFailed", <<"vm.cpuid">> >>,
       <<"setup_regs", "REGSConfiguration",
         <<"kernel_start_addr", "BOOT_STACK_POINTER", "ZERO_PAGE_START">> >>,
       <<"setup_msrs", "MSRSConfiguration", <<>> >>,
       <<"setup_fpu", "FPUConfiguration", <<>> >>,
       <<"setup_sregs", "SREGSConfiguration", <<"vm_memory">> >>,
       <<"set_lint", "LocalIntConfiguration", <<>> >> >>

\* The sub-steps of Vcpu::configure: the call, the error kind its failure
\* is mapped to, and the arguments passed next to the vCPU descriptor
\* (setup_regs takes boot_ip, boot_sp, boot_si in this order).
ConfigureSteps ==
    << <<"set_cpuid2", "SetSupportedCpusFailed", <<"vm.cpuid">> >>,
       <<"setup_msrs", "MSRSConfiguration", <<>> >>,
       <<"setup_regs", "REGSConfiguration",
         <<"kernel_start_addr", "BOOT_STACK_POINTER", "ZERO_PAGE_START">> >>,
       <<"setup_fpu", "FPUConfiguration", <<>> >>,
       <<"setup_sregs", "SREGSConfiguration", <<"vm_memory">> >>,
       <<"set_lint", "LocalIntConfiguration", <<>> >> >>

\* The calls of the first n sub-steps, made by thread `by`: each is the
\* call, the thread and the arguments.
ConfigureCalls(n, by) ==
    [k \in 1..n |-> <<ConfigureSteps[k][1], by, ConfigureSteps[k][3]>>]

\* vcpu.configure(entry_addr, &self)?  on the monitor thread: the sub-steps
\* run in order up to the first that fails (fail_at; 0 when none does).
StartConfigure ==
    /\ Running /\ m_pc = "start_configure"
    /\ \E fail_at \in 0..Len(ConfigureSteps) :
          IF fail_at = 0
          THEN /\ v_calls' = [v_calls EXCEPT ![cpu_id] =
                                @ \o ConfigureCalls(Len(ConfigureSteps), MonitorThread)]
               /\ v_pc' = [v_pc EXCEPT ![cpu_id] = "configured"]
               /\ m_pc' = "start_spawn"
               /\ UNCHANGED m_ret
          ELSE /\ v_calls' = [v_calls EXCEPT ![cpu_id] =
                                @ \o ConfigureCalls(fail_at - 1, MonitorThread)]
               /\ v_pc' = [v_pc EXCEPT ![cpu_id] = "dropped"]
               /\ StartFail(ConfigureSteps[fail_at][2])
    /\ UNCHANGED <<vcpu_count, exit_status, newVars, epollVars, devVars,
                   stdinVars, startVars, loopVars, v_bus, v_gen, v_cur,
                   handler_installs>>

\* vcpus.push(thread::Builder::new().name(..).spawn(..).map_err(VcpuSpawn)?)
StartSpawn ==
    /\ Running /\ m_pc = "start_spawn"
    /\ \/ /\ v_pc' = [v_pc EXCEPT ![cpu_id] = "sig"]
          /\ vcpus' = Append(vcpus, cpu_id)
          /\ cpu_id' = cpu_id + 1
          /\ m_pc' = AfterLoopTest(cpu_id + 1)
          /\ UNCHANGED m_ret
       \/ /\ v_pc' = [v_pc EXCEPT ![cpu_id] = "dropped"]
          /\ StartFail("VcpuSpawn")
          /\ UNCHANGED <<vcpus, cpu_id>>
    /\ UNCHANGED <<vcpu_count, exit_status, newVars, epollVars, devVars,
                   stdinVars, barrier, m_gen, arrived, loopVars, v_bus, v_gen, v_cur,
                   v_calls, handler_installs>>

\* vcpu_thread_barrier.wait() on the monitor; then self.control_loop().
StartBarrierWait ==
    /\ Running /\ m_pc = "start_wait"
    /\ LET a == BarrierArrive(barrier) IN
          /\ barrier' = a.barrier
          /\ m_gen' = barrier.generation_id
          /\ arrived' = arrived \cup {MonitorThread}
          /\ m_pc' = IF a.blocks THEN "start_waiting" ELSE "epoll_wait"
    /\ UNCHANGED <<vcpu_count, m_ret, exit_status, newVars, epollVars, devVars,
                   stdinVars, cpu_id, vcpus, loopVars, vcpuVars>>

StartBarrierWake ==
    /\ Running /\ m_pc = "start_waiting"
    /\ barrier.generation_id # m_gen
    /\ m_pc' = "epoll_wait"
    /\ UNCHANGED <<vcpu_count, m_ret, exit_status, newVars, epollVars, devVars,
                   stdinVars, startVars, loopVars, vcpuVars>>

VmStart ==
    \/ StartRegisterDevices \/ StartCreateBarrier \/ StartCloneBus
    \/ StartVcpuNew \/ StartConfigure \/ StartSpawn
    \/ StartBarrierWait \/ StartBarrierWake

(***************************************************************************)
(* The vCPU thread (the closure spawned by Vm::start).                     *)
(***************************************************************************)
\* The port whose write of RESET_BYTE makes the i8042 raise exit_evt
\* (offset 3 of the device).
I8042ResetPort == I8042_BASE + 3

ResetWrite ==
    [kind |-> "IoOut", port |-> I8042ResetPort, data |-> 254, errno |-> ""]

\* The exit reasons the match of the exit loop handles with an empty or a
\* logging arm: every variant of VcpuExit but IoIn and IoOut.
NoIoKinds ==
    {"MmioRead", "MmioWrite", "Unknown", "Exception", "Hypercall", "Debug",
     "Hlt", "IrqWindowOpen", "Shutdown", "FailEntry", "Intr", "SetTpr",
     "TprAccess", "S390Sieic", "S390Reset", "Dcr", "Nmi", "InternalError",
     "Osi", "PaprHcall", "S390Ucontrol", "Watchdog", "S390Tsch", "Epr",
     "SystemEvent", "S390Stsi", "IoapicEoi", "Hyperv"}

IoIn(p) == [kind |-> "IoIn", port |-> p, data |-> 0, errno |-> ""]
IoOut(p, d) == [kind |-> "IoOut", port |-> p, data |-> d, errno |-> ""]
OtherExit(k) == [kind |-> k, port |-> 0, data |-> 0, errno |-> ""]
\* An MMIO exit; its address is in the field `port`.
MmioRead(a) == [kind |-> "MmioRead", port |-> a, data |-> 0, errno |-> ""]
MmioWrite(a, d) == [kind |-> "MmioWrite", port |-> a, data |-> d, errno |-> ""]
RunErr(e) == [kind |-> "Err", port |-> 0, data |-> 0, errno |-> e]

\* What vcpu.run() returns in the thread model: a read of the serial data
\* register, the reset write, an exit without I/O, and failures by errno.
RunResults ==
    {IoIn(SERIAL_BASE), ResetWrite, OtherExit("Hlt"),
     RunErr("EAGAIN"), RunErr("EINTR"), RunErr("EINVAL")}

\* What vcpu.run() returns in the model of one vCPU: port reads and writes
\* that hit each device or none, MMIO accesses at addresses that are also
\* ports of devices, every other exit reason, and failures.
AllRunResults ==
    {IoIn(p) : p \in {SERIAL_BASE, I8042ResetPort, PCI_BASE + 4, 128}}
    \cup {ResetWrite, IoOut(I8042ResetPort, 65), IoOut(SERIAL_BASE, 65),
          IoOut(PCI_BASE, 65), IoOut(128, 65)}
    \cup {MmioRead(SERIAL_BASE), MmioWrite(I8042ResetPort, 254)}
    \cup {OtherExit(k) : k \in NoIoKinds}
    \cup {RunErr(e) : e \in {"EAGAIN", "EINTR", "EINVAL", "EFAULT"}}

\* A match that also sends MmioRead to the bus.
BusCallsMmioToo(exit) ==
    CASE exit.kind \in {"IoIn", "MmioRead"} ->
            <<[op |-> "read", addr |-> exit.port, data |-> exit.data]>>
      [] exit.kind = "IoOut" ->
            <<[op |-> "write", addr |-> exit.port, data |-> exit.data]>>
      [] OTHER -> <<>>

\* The calls on io_bus the match arm of an exit reason makes.
BusCalls(exit) ==
    CASE exit.kind = "IoIn" ->
            <<[op |-> "read", addr |-> exit.port, data |-> exit.data]>>
      [] exit.kind = "IoOut" ->
            <<[op |-> "write", addr |-> exit.port, data |-> exit.data]>>
      [] OTHER -> <<>>

\* A loop that breaks on every failure of run().
BreaksLoopAnyErr(exit) == exit.kind = "Err"

\* Whether the arm of a run() result breaks the loop: a failure whose
\* errno is neither EAGAIN nor EINTR.
BreaksLoop(exit) == exit.kind = "Err" /\ exit.errno \notin {"EAGAIN", "EINTR"}

\* The vCPUs whose pending exit is the reset write.
PendingResets == {j \in DOMAIN v_cur : v_cur[j] = ResetWrite}

\* register_signal_handler(..).expect(..): a failure panics the thread.
VcpuRegisterSignal(i) ==
    /\ Running /\ i \in DOMAIN v_pc /\ v_pc[i] = "sig"
    /\ \/ /\ handler_installs' = handler_installs + 1
          /\ v_pc' = [v_pc EXCEPT ![i] = "barrier"]
       \/ /\ v_pc' = [v_pc EXCEPT ![i] = "panicked"]
          /\ UNCHANGED handler_installs
    /\ UNCHANGED <<vcpu_count, m_pc, m_ret, exit_status, newVars, epollVars,
                   devVars, stdinVars, startVars, loopVars, v_bus, v_gen, v_cur,
                   v_calls>>

\* vcpu_thread_barrier.wait() on the vCPU thread.
VcpuBarrierWait(i) ==
    /\ Running /\ i \in DOMAIN v_pc /\ v_pc[i] = "barrier"
    /\ LET a == BarrierArrive(barrier) IN
          /\ barrier' = a.barrier
          /\ v_gen' = [v_gen EXCEPT ![i] = barrier.generation_id]
          /\ arrived' = arrived \cup {VcpuThread(i)}
          /\ v_pc' = [v_pc EXCEPT ![i] = IF a.blocks THEN "waiting" ELSE "run"]
    /\ UNCHANGED <<vcpu_count, m_pc, m_ret, exit_status, newVars, epollVars,
                   devVars, stdinVars, m_gen, cpu_id, vcpus, loopVars, v_bus,
                   v_cur, v_calls, handler_installs>>

VcpuBarrierWake(i) ==
    /\ Running /\ i \in DOMAIN v_pc /\ v_pc[i] = "waiting"
    /\ barrier.generation_id # v_gen[i]
    /\ v_pc' = [v_pc EXCEPT ![i] = "run"]
    /\ UNCHANGED <<vcpu_count, m_pc, m_ret, exit_status, newVars, epollVars,
                   devVars, stdinVars, startVars, loopVars, v_bus, v_gen, v_cur,
                   v_calls, handler_installs>>

\* vcpu.run() returns one of `results`.  (The guest is kept from raising
\* exit_evt beyond MaxExitEvt.)
RunReturns(i, results) ==
    /\ Running /\ i \in DOMAIN v_pc /\ v_pc[i] = "run"
    /\ \E r \in results :
          /\ r = ResetWrite => exit_evt + Cardinality(PendingResets) < MaxExitEvt
          /\ v_cur' = [v_cur EXCEPT ![i] = r]
    /\ v_pc' = [v_pc EXCEPT ![i] = "exit"]
    /\ v_calls' = [v_calls EXCEPT ![i] =
                     IF <<"run", VcpuThread(i), <<>>>> \in {@[k] : k \in 1..Len(@)}
                     THEN @ ELSE Append(@, <<"run", VcpuThread(i), <<>>>>)]
    /\ UNCHANGED <<vcpu_count, m_pc, m_ret, exit_status, newVars, epollVars,
                   devVars, stdinVars, startVars, loopVars, v_bus, v_gen,
                   handler_installs>>

VcpuRun(i) == RunReturns(i, RunResults)

VcpuRunAny(i) == RunReturns(i, AllRunResults)

\* The match on the result of run(): a bus call that hits a device enters
\* the device under its Mutex (the bus panics the thread when the Mutex is
\* poisoned); a bus call that hits none returns at once;
\* the other arms do nothing; a failure retries or breaks the loop.
VcpuDispatch(i) ==
    /\ Running /\ i \in DOMAIN v_pc /\ v_pc[i] = "exit"
    /\ LET calls == BusCalls(v_cur[i])
           hit == IF calls = <<>> THEN {} ELSE BusResolve(v_bus[i], calls[1].addr)
       IN  IF hit # {}
           THEN \E r \in hit :
                   \/ /\ MutexFree(dev_lock, r.dev)
                      /\ dev_lock' = [dev_lock EXCEPT ![r.dev] = VcpuThread(i)]
                      /\ v_pc' = [v_pc EXCEPT ![i] = "in_dev"]
                      /\ UNCHANGED v_cur
                   \/ /\ dev_lock[r.dev] = Poisoned
                      /\ v_pc' = [v_pc EXCEPT ![i] = "panicked"]
                      /\ UNCHANGED <<dev_lock, v_cur>>
           ELSE /\ v_pc' = [v_pc EXCEPT ![i] =
                              IF BreaksLoop(v_cur[i]) THEN "dead" ELSE "run"]
                /\ v_cur' = [v_cur EXCEPT ![i] = NoExit]
                /\ UNCHANGED dev_lock
    /\ UNCHANGED <<vcpu_count, m_pc, m_ret, exit_status, newVars, epollVars,
                   io_bus, exit_evt, serial_in, stdinVars, startVars, loopVars,
                   v_bus, v_gen, v_calls, handler_installs>>

\* The device's read or write under its Mutex, and the release of the
\* Mutex: the i8042 raises exit_evt on the reset write, the serial UART
\* hands out the head of its receive queue on a read of its data register.
VcpuDeviceAccess(i) ==
    /\ Running /\ i \in DOMAIN v_pc /\ v_pc[i] = "in_dev"
    /\ LET call == BusCalls(v_cur[i])[1]
           r == CHOOSE x \in BusResolve(v_bus[i], call.addr) : TRUE
           offset == call.addr - r.base
       IN  /\ dev_lock' = MutexUnlock(dev_lock, r.dev)
           /\ exit_evt' = IF r.dev = "i8042" /\ call.op = "write"
                             /\ offset = 3 /\ call.data = 254
                          THEN exit_evt + 1 ELSE exit_evt
           /\ serial_in' = IF r.dev = "serial" /\ call.op = "read"
                              /\ offset = 0 /\ serial_in # <<>>
                           THEN Tail(serial_in) ELSE serial_in
    /\ v_pc' = [v_pc EXCEPT ![i] = "run"]
    /\ v_cur' = [v_cur EXCEPT ![i] = NoExit]
    /\ UNCHANGED <<vcpu_count, m_pc, m_ret, exit_status, newVars, epollVars,
                   io_bus, stdinVars, startVars, loopVars, v_bus, v_gen,
                   v_calls, handler_installs>>

\* The steps of a vCPU thread other than the return of run().
VcpuThreadStep(i) ==
    \/ VcpuRegisterSignal(i) \/ VcpuBarrierWait(i) \/ VcpuBarrierWake(i)
    \/ VcpuDispatch(i) \/ VcpuDeviceAccess(i)

VcpuStep(i) == VcpuThreadStep(i) \/ VcpuRun(i)

(***************************************************************************)
(* Host stdin.  The k-th byte written to it is StdinByte(k), never 0, so   *)
(* that it differs from the fill of `out`.                                 *)
(***************************************************************************)
StdinByte(k) == ((k - 1) % 255) + 1

\* The bytes of host stdin from position a + 1 to b.
StdinBytes(a, b) == [k \in 1..(b - a) |-> StdinByte(a + k)]

BurstLen == OUT_LEN + 1

\* One byte is written to host stdin.
StdinType ==
    /\ Running /\ ~stdin_hup
    /\ stdin_typed % BurstLen < MaxTyped
    /\ stdin_typed' = stdin_typed + 1
    /\ UNCHANGED <<vcpu_count, m_pc, m_ret, exit_status, newVars, epollVars,
                   devVars, stdin_pos, stdin_hup, startVars, loopVars, vcpuVars>>

\* More bytes than `out` holds are written to host stdin at once.
StdinBurst ==
    /\ Running /\ ~stdin_hup
    /\ stdin_typed \div BurstLen < MaxBursts
    /\ stdin_typed' = stdin_typed + BurstLen
    /\ UNCHANGED <<vcpu_count, m_pc, m_ret, exit_status, newVars, epollVars,
                   devVars, stdin_pos, stdin_hup, startVars, loopVars, vcpuVars>>

\* The writer of host stdin closes it (end of input): nothing more is
\* written.
StdinHangUp ==
    /\ Running /\ ~stdin_hup
    /\ stdin_hup' = TRUE
    /\ UNCHANGED <<vcpu_count, m_pc, m_ret, exit_status, newVars, epollVars,
                   devVars, stdin_typed, stdin_pos, startVars, loopVars, vcpuVars>>

(***************************************************************************)
(* Vm::control_loop, on the monitor thread.                                *)
(***************************************************************************)
\* The descriptors of the interest list the poller reports: stdin while
\* it has unread bytes (EPOLLIN) and, whatever was asked for, once its
\* writer has closed it (EPOLLHUP), for as long as it stays registered.
Readable(fd) ==
    \/ fd = "stdin" /\ (stdin_typed > stdin_pos \/ stdin_hup)
    \/ fd = "exit_evt" /\ exit_evt > 0

ReadyTokens == {r.data : r \in {x \in epoll.interest : Readable(x.fd)}}

\* The sequences without repetition that list all of a set of tokens.
Orders(S) ==
    {q \in UNION {[1..n -> S] : n \in {Cardinality(S)}} :
        \A a, b \in 1..Len(q) : a # b => q[a] # q[b]}

\* control_loop returns Err(kind) and so does start (`self.control_loop()?`);
\* the locals of control_loop are dropped.
LoopFail(kind) ==
    /\ m_pc' = "idle"
    /\ m_ret' = kind
    /\ events' = <<>>
    /\ ev_idx' = 0
    /\ out' = <<>>
    /\ count' = 0

\* A control_loop without the outer `loop`: it returns after the events of
\* one epoll::wait.
NextEventReturns ==
    IF ev_idx < Len(events)
    THEN /\ ev_idx' = ev_idx + 1
         /\ m_pc' = "dispatch"
         /\ UNCHANGED events
    ELSE /\ ev_idx' = 0
         /\ events' = <<>>
         /\ m_pc' = "idle"

\* After the arm of an event: the next event, or the next epoll::wait.
NextEvent ==
    IF ev_idx < Len(events)
    THEN /\ ev_idx' = ev_idx + 1
         /\ m_pc' = "dispatch"
         /\ UNCHANGED events
    ELSE /\ ev_idx' = 0
         /\ events' = <<>>
         /\ m_pc' = "epoll_wait"

\* epoll::wait(epoll_fd, -1, ..) returns Ok: it blocks, without a limit of
\* time, until a registered descriptor is ready and reports the ready ones
\* with their tokens.
EpollWaitReports ==
    /\ Running /\ m_pc = "epoll_wait"
    /\ ReadyTokens # {}
    /\ events' \in Orders(ReadyTokens)
    /\ ev_idx' = 1
    /\ m_pc' = "dispatch"
    /\ UNCHANGED <<vcpu_count, m_ret, exit_status, newVars, epollVars, devVars,
                   stdinVars, startVars, out, count, vcpuVars>>

\* epoll::wait(..).map_err(Error::EpollError)? fails (a failure of the
\* host, which nothing in the program brings about).
EpollWaitFails ==
    /\ Running /\ m_pc = "epoll_wait"
    /\ LoopFail("EpollError")
    /\ UNCHANGED <<vcpu_count, exit_status, newVars, epollVars, devVars,
                   stdinVars, startVars, vcpuVars>>

EpollWait == EpollWaitReports \/ EpollWaitFails

\* The tokens an event may carry when nothing is assumed of the poller.
AnyTokens == 0..(MaxRegistrations + 1)

\* epoll::wait reporting events whose tokens are not those registered.
EpollWaitAny ==
    /\ Running /\ m_pc = "epoll_wait"
    /\ events' \in [1..1 -> AnyTokens] \cup [1..2 -> AnyTokens]
    /\ ev_idx' = 1
    /\ m_pc' = "dispatch"
    /\ UNCHANGED <<vcpu_count, m_ret, exit_status, newVars, epollVars, devVars,
                   stdinVars, startVars, out, count, vcpuVars>>

\* self.epoll.dispatch_table[dispatch_idx]: indexing a Vec panics when the
\* index is not below its length.
Lookup(table, dispatch_idx) ==
    IF dispatch_idx < Len(table) THEN table[dispatch_idx + 1] ELSE "panic"

\* The most bytes read_raw(&mut out) returns: the length of `out`.
ReadLimit == OUT_LEN

\* A push of all of `out`.
QueuedSliceWhole(buf, n) == buf

\* The slice &out[..count] handed to queue_input_bytes.
QueuedSlice(buf, n) == SubSeq(buf, 1, n)

\* An Exit arm that consumes the event and goes on with the loop.
ExitArmContinue ==
    /\ exit_evt > 0
    /\ exit_evt' = 0
    /\ NextEvent
    /\ UNCHANGED <<m_ret, exit_status, out, count, stdin_pos>>

\* The arm EpollDispatch::Exit: exit_evt.read().map_err(Error::EventFd)?
\* (a read of the counter succeeds only when it is not 0, and resets it),
\* then libc::_exit(0).
ExitArm ==
    /\ \/ /\ exit_evt > 0
          /\ exit_evt' = 0
          /\ exit_status' = {0}
          /\ UNCHANGED <<m_pc, m_ret, events, ev_idx, out, count>>
       \/ /\ LoopFail("EventFd")
          /\ UNCHANGED <<exit_evt, exit_status>>
    /\ UNCHANGED stdin_pos

\* What read_raw(&mut out) may return as Ok: some of the unread bytes, at
\* most the length of `out`; 0 at the end of input (no unread byte and the
\* writer gone); with no unread byte and the writer there, the read waits.
ReadCounts ==
    IF stdin_typed > stdin_pos THEN 1..Min(stdin_typed - stdin_pos, ReadLimit)
    ELSE IF stdin_hup THEN {0} ELSE {}

\* The arm EpollDispatch::Stdin up to read_raw: stdin.lock(), a zeroed
\* `out`, and read_raw(&mut out).map_err(Error::Serial)?, which returns the
\* count of the bytes it put at the head of `out`.
StdinArm ==
    /\ \/ /\ \E n \in ReadCounts :
               /\ count' = n
               /\ out' = [k \in 1..OUT_LEN |->
                            IF k <= n THEN StdinByte(stdin_pos + k) ELSE 0]
               /\ stdin_pos' = stdin_pos + n
          /\ m_pc' = "stdin_queue"
          /\ UNCHANGED <<m_ret, events, ev_idx>>
       \/ /\ LoopFail("Serial")
          /\ UNCHANGED stdin_pos
    /\ UNCHANGED <<exit_status, exit_evt>>

\* One event of the loop `for event in events.iter().take(num_events)`:
\* the lookup of its token and the arm of its kind; an empty slot is
\* passed over.
ControlDispatch ==
    /\ Running /\ m_pc = "dispatch"
    /\ LET kind == Lookup(epoll.dispatch_table, events[ev_idx]) IN
       CASE kind = "panic" ->
              /\ m_pc' = "panicked"
              /\ UNCHANGED <<m_ret, exit_status, exit_evt, events, ev_idx, out,
                             count, stdin_pos>>
         [] kind = None ->
              /\ NextEvent
              /\ UNCHANGED <<m_ret, exit_status, exit_evt, out, count, stdin_pos>>
         [] kind = "Exit" -> ExitArm
         [] kind = "Stdin" -> StdinArm
    /\ UNCHANGED <<vcpu_count, newVars, epollVars, io_bus, serial_in, dev_lock,
                   stdin_typed, stdin_hup, startVars, vcpuVars>>

\* self.devices.serial.lock().expect(..): the monitor takes the Mutex of
\* the UART when it is free; on a poisoned Mutex lock() returns Err and
\* expect panics the monitor thread.
StdinLockSerial ==
    /\ Running /\ m_pc = "stdin_queue"
    /\ \/ /\ MutexFree(dev_lock, "serial")
          /\ dev_lock' = [dev_lock EXCEPT !["serial"] = MonitorThread]
          /\ m_pc' = "stdin_locked"
       \/ /\ dev_lock["serial"] = Poisoned
          /\ m_pc' = "panicked"
          /\ UNCHANGED dev_lock
    /\ UNCHANGED <<vcpu_count, m_ret, exit_status, newVars, epollVars, io_bus,
                   exit_evt, serial_in, stdinVars, startVars, loopVars, vcpuVars>>

\* .queue_input_bytes(&out[..count]).map_err(Error::Serial)? under the
\* Mutex, which the end of the statement releases; `out` ends with the arm.
StdinQueue ==
    /\ Running /\ m_pc = "stdin_locked"
    /\ dev_lock' = MutexUnlock(dev_lock, "serial")
    /\ \/ /\ serial_in' = serial_in \o QueuedSlice(out, count)
          /\ NextEvent
          /\ out' = <<>>
          /\ count' = 0
          /\ UNCHANGED m_ret
       \/ /\ LoopFail("Serial")
          /\ UNCHANGED serial_in
    /\ UNCHANGED <<vcpu_count, exit_status, newVars, epollVars, io_bus,
                   exit_evt, stdinVars, startVars, vcpuVars>>

ControlLoop == EpollWait \/ ControlDispatch \/ StdinLockSerial \/ StdinQueue

(***************************************************************************)
(* The thread model: Vm::new, Vm::start, the vCPU threads and the event    *)
(* loop, for every vcpu_count up to MaxVcpus.                              *)
(***************************************************************************)
\* The ids of the vCPU threads of the thread model.
VcpuIds == 0..(MaxVcpus - 1)

Monitor == VmNew \/ VmStart \/ ControlLoop

\* The steps of the monitor that need nothing but the processor: every
\* step but the failure of epoll::wait, which only the host can bring
\* about, and the lock() of the UART's Mutex, which waits for its holder.
MonitorRuns ==
    VmNew \/ VmStart \/ EpollWaitReports \/ ControlDispatch \/ StdinQueue

\* What happens on host stdin.
Stdin == StdinType \/ StdinHangUp

Next ==
    \/ Monitor
    \/ \E i \in VcpuIds : VcpuStep(i)
    \/ Stdin

\* Vm::new, Vm::start and the threads it spawns, for 0..MaxVcpus vCPUs.
Spec == Init /\ [][Next]_vars

\* The same for one vCPU fewer, under a scheduler that runs the monitor
\* whenever it can go on by itself (epoll::wait returns only when a
\* descriptor is ready, and is not made to fail), hands it the UART's Mutex
\* when the Mutex keeps becoming free, and lets the holder of a device's
\* Mutex finish its access.
FairSpec ==
    /\ InitWith(0..(MaxVcpus - 1), {"new_open_kernel"})
    /\ [][Next]_vars
    /\ WF_vars(MonitorRuns)
    /\ SF_vars(StdinLockSerial)
    /\ \A i \in VcpuIds : WF_vars(VcpuDeviceAccess(i))

\* The thread model under a scheduler that keeps the threads running: the
\* holder of a Mutex finishes what it does under it, and a thread at a
\* lock() that stays possible takes the Mutex.  Nothing is assumed of the
\* order in which a Mutex is handed to the threads that wait for it.
LockFairSpec ==
    /\ Init
    /\ [][Next]_vars
    /\ WF_vars(StdinQueue)
    /\ WF_vars(StdinLockSerial)
    /\ \A i \in VcpuIds : WF_vars(VcpuDeviceAccess(i)) /\ WF_vars(VcpuDispatch(i))

(***************************************************************************)
(* The thread model with devices whose read or write may panic.            *)
(***************************************************************************)
\* The read or write of a device panics under its Mutex: the thread ends
\* and the Mutex is left poisoned.
VcpuDevicePanics(i) ==
    /\ Running /\ i \in DOMAIN v_pc /\ v_pc[i] = "in_dev"
    /\ LET call == BusCalls(v_cur[i])[1]
           r == CHOOSE x \in BusResolve(v_bus[i], call.addr) : TRUE
       IN  dev_lock' = [dev_lock EXCEPT ![r.dev] = Poisoned]
    /\ v_pc' = [v_pc EXCEPT ![i] = "panicked"]
    /\ UNCHANGED <<vcpu_count, m_pc, m_ret, exit_status, newVars, epollVars,
                   io_bus, exit_evt, serial_in, stdinVars, startVars, loopVars,
                   v_bus, v_gen, v_cur, v_calls, handler_installs>>

NextPoison == Next \/ \E i \in VcpuIds : VcpuDevicePanics(i)

SpecPoison == Init /\ [][NextPoison]_vars

(***************************************************************************)
(* Vm::new over the CPUID images a backend may report.                     *)
(***************************************************************************)
CpuidEntries ==
    [function : {0, 1}, index : {0, 1},
     ecx : {{}, {0}, {ECX_HYPERVISOR_SHIFT}, {0, ECX_HYPERVISOR_SHIFT}},
     edx : {{}, {ECX_HYPERVISOR_SHIFT}}]

CpuidImages == UNION {[1..n -> CpuidEntries] : n \in 0..MaxCpuidEntries}

NewCpuidAny == NewCpuidFrom(CpuidImages)

NextCpuid ==
    \/ NewOpenKernel \/ NewCreateVm \/ NewGuestMemory \/ NewRegisterRegion
    \/ NewSetTss \/ NewCreateIrqChip \/ NewCreatePit2 \/ NewCpuidAny
    \/ NewDeviceManager \/ NewRegisterIrqfd \/ NewEpoll \/ NewAddStdin
    \/ NewAddExitEvent

SpecCpuid == InitWith({0}, {"new_open_kernel"}) /\ [][NextCpuid]_vars

(***************************************************************************)
(* EpollContext under any sequence of calls of its methods, next to the    *)
(* calls Vm::new makes.                                                    *)
(***************************************************************************)
EpollFds == {"exit_evt", "serial_evt", "timer_evt"}

\* EpollContext::new():
\* epoll::create(true)? fails and no context is built, or the context is
\* returned.
EpNew ==
    /\ m_pc = "ep_start"
    /\ \/ /\ epoll' = EpollContextNew
          /\ m_pc' = "ep_ready"
          /\ UNCHANGED m_ret
       \/ /\ m_pc' = "ep_failed"
          /\ m_ret' = "EpollError"
          /\ UNCHANGED epoll
    /\ supplied' = <<>>
    /\ UNCHANGED <<vcpu_count, exit_status, newVars, devVars, stdinVars,
                   startVars, loopVars, vcpuVars>>

\* A call of add_stdin; `supplied` lists the kinds of the calls that
\* returned Ok.
EpAddStdin ==
    /\ m_pc = "ep_ready"
    /\ Len(supplied) < MaxRegistrations
    /\ \E ctl_ok \in {TRUE, FALSE} :
          /\ ctl_ok => CtlAddCanSucceed(epoll, "stdin")
          /\ epoll' = add_stdin(epoll, ctl_ok)
          /\ supplied' = IF ctl_ok THEN Append(supplied, "Stdin") ELSE supplied
          /\ m_ret' = IF ctl_ok THEN "Ok" ELSE "EpollError"
    /\ UNCHANGED <<vcpu_count, m_pc, exit_status, newVars, devVars, stdinVars,
                   startVars, loopVars, vcpuVars>>

\* A call of add_event(fd, token).
EpAddEvent ==
    /\ m_pc = "ep_ready"
    /\ Len(supplied) < MaxRegistrations
    /\ \E fd \in EpollFds, token \in {"Stdin", "Exit"}, ctl_ok \in {TRUE, FALSE} :
          /\ ctl_ok => CtlAddCanSucceed(epoll, fd)
          /\ epoll' = add_event(epoll, fd, token, ctl_ok)
          /\ supplied' = IF ctl_ok THEN Append(supplied, token) ELSE supplied
          /\ m_ret' = IF ctl_ok THEN "Ok" ELSE "EpollError"
    /\ UNCHANGED <<vcpu_count, m_pc, exit_status, newVars, devVars, stdinVars,
                   startVars, loopVars, vcpuVars>>

NextEpoll == VmNew \/ EpNew \/ EpAddStdin \/ EpAddEvent

SpecEpoll ==
    InitWith({0}, {"new_open_kernel", "ep_start"}) /\ [][NextEpoll]_vars

(***************************************************************************)
(* The monitor alone (no vCPU), with bursts on host stdin.                 *)
(***************************************************************************)
StartAlone == StartRegisterDevices \/ StartCreateBarrier \/ StartBarrierWait

NextStdin == VmNew \/ StartAlone \/ ControlLoop \/ Stdin \/ StdinBurst

SpecStdin == InitWith({0}, {"new_open_kernel"}) /\ [][NextStdin]_vars

(***************************************************************************)
(* The monitor alone under a poller that may report any token.             *)
(***************************************************************************)
NextAnyToken ==
    \/ VmNew \/ StartAlone
    \/ EpollWaitAny \/ EpollWaitFails
    \/ ControlDispatch \/ StdinLockSerial \/ StdinQueue
    \/ Stdin

SpecAnyToken == InitWith({0}, {"new_open_kernel"}) /\ [][NextAnyToken]_vars

(***************************************************************************)
(* One vCPU whose run() may return every exit reason.                      *)
(***************************************************************************)
NextExits == Monitor \/ VcpuThreadStep(0) \/ VcpuRunAny(0) \/ Stdin

SpecExits == InitWith({1}, {"new_open_kernel"}) /\ [][NextExits]_vars

(***************************************************************************)
(* The largest vcpu_count of the type u8, with the monitor scheduled and   *)
(* the first vCPU thread up to the return of its first run().              *)
(***************************************************************************)
U8_MAX == Pow2(U8_BITS) - 1

NextMaxVcpus ==
    \/ VmNew
    \/ StartRegisterDevices \/ StartCreateBarrier \/ StartCloneBus
    \/ StartVcpuNew \/ StartConfigure \/ StartSpawn \/ StartBarrierWait
    \/ VcpuRegisterSignal(0) \/ VcpuBarrierWait(0) \/ VcpuRun(0)

SpecMaxVcpus == InitWith({U8_MAX}, {"new_open_kernel"}) /\ [][NextMaxVcpus]_vars

(***************************************************************************)
(* Properties.                                                             *)
(***************************************************************************)
\* The values of m_pc inside control_loop.
LoopPcs == {"epoll_wait", "dispatch", "stdin_queue", "stdin_locked"}

\* The values of v_pc of a thread that has returned from the barrier.
PastBarrierPcs == {"run", "exit", "in_dev", "dead"}

\* The elements of a sequence.
Range(q) == {q[k] : k \in 1..Len(q)}

\* The device a port belongs to on the bus of the specification's table
\* (serial 0x3f8..0x400, i8042 0x61..0x65, PCI configuration 0xcf8..0xd00).
PortOwner(port) ==
    IF 1016 <= port /\ port < 1024 THEN {"serial"}
    ELSE IF 97 <= port /\ port < 101 THEN {"i8042"}
    ELSE IF 3320 <= port /\ port < 3328 THEN {"pci"}
    ELSE {}

\* Whether a bus holds the three devices at their ports.
AllRegistered(bus) ==
    /\ [base |-> 1016, len |-> 8, dev |-> "serial"] \in bus
    /\ [base |-> 97, len |-> 4, dev |-> "i8042"] \in bus
    /\ [base |-> 3320, len |-> 8, dev |-> "pci"] \in bus

\* C10: in the CPUID image the VM keeps, every entry the backend reported
\* with function 1 and index 0 has bit 31 of ECX set and is otherwise as
\* reported, every other entry is as reported, and the entries are as many
\* and in the same order as reported.
C10_CpuidPatch ==
    /\ Len(cpuid) = Len(cpuid_reported)
    /\ \A k \in 1..Len(cpuid_reported) :
          LET r == cpuid_reported[k]
              c == cpuid[k]
          IN  IF r.function = 1 /\ r.index = 0
              THEN /\ 31 \in c.ecx
                   /\ c.ecx \ {31} = r.ecx \ {31}
                   /\ c.function = r.function /\ c.index = r.index
                   /\ c.edx = r.edx
              ELSE c = r

\* An image with a leaf-1 entry that got the bit and a function-1 entry of
\* another index that did not.
C10_Witness ==
    \E k, j \in 1..Len(cpuid_reported) :
        /\ cpuid_reported[k].function = 1 /\ cpuid_reported[k].index = 0
        /\ 31 \notin cpuid_reported[k].ecx /\ 31 \in cpuid[k].ecx
        /\ cpuid_reported[j].function = 1 /\ cpuid_reported[j].index = 1
        /\ 31 \notin cpuid[j].ecx

\* C8: once the context is constructed, the dispatch table is the None of
\* slot 0 followed by the kinds of the successful registrations in their
\* order; the k-th successful registration holds token k in the interest
\* list; every token of the interest list is at least 1, below the length
\* of the table, and maps to the kind supplied with it; a failed
\* registration changes nothing; and a VM that Vm::new returned has the
\* table [None, Stdin, Exit].
C8_DispatchTable ==
    epoll.dispatch_table # <<>> =>
        /\ epoll.dispatch_table = <<None>> \o supplied
        /\ Cardinality(epoll.interest) = Len(supplied)
        /\ \A k \in 1..Len(supplied) : \E r \in epoll.interest : r.data = k
        /\ \A r \in epoll.interest :
              /\ 1 <= r.data /\ r.data < Len(epoll.dispatch_table)
              /\ epoll.dispatch_table[r.data + 1] = supplied[r.data]
              /\ r.fd = "stdin" => supplied[r.data] = "Stdin"
        /\ m_pc = "idle" => epoll.dispatch_table = <<None, "Stdin", "Exit">>

\* A context with registrations of both kinds whose last call failed.
C8_Witness ==
    /\ m_pc = "ep_ready" /\ m_ret = "EpollError"
    /\ Len(supplied) >= 2
    /\ {"Stdin", "Exit"} \subseteq Range(supplied)

\* The step of start in which register_devices fails.
RegisterFails == m_pc = "idle" /\ m_ret # "BusError" /\ m_ret' = "BusError"

\* C2: a vCPU that has been created, and a bus clone that has been handed
\* out, exist only when the shared bus holds the serial, i8042 and PCI
\* devices, and the clone holds them too, so every read or write a vCPU
\* thread dispatches sees all three; and the step of start in which
\* register_devices fails creates and spawns no vCPU and returns.
C2_RegisteredBeforeVcpus ==
    /\ [](\A i \in DOMAIN v_pc :
            (v_pc[i] # "unborn" \/ v_bus[i] # {}) =>
                AllRegistered(io_bus) /\ AllRegistered(v_bus[i]))
    /\ [][RegisterFails =>
            /\ m_pc' = "idle"
            /\ UNCHANGED <<v_pc, v_bus, vcpus, cpu_id, v_calls, barrier>>]_vars

\* A vCPU thread inside a device of its clone, after a later call of start
\* has failed to register.
C2_Witness ==
    /\ m_ret = "BusError"
    /\ \E i \in DOMAIN v_pc : v_pc[i] = "in_dev" /\ AllRegistered(v_bus[i])

\* Whether a result of run() is a failure other than EAGAIN and EINTR.
FatalRunError(exit) == exit.kind = "Err" /\ exit.errno \notin {"EAGAIN", "EINTR"}

C7_Step(i) ==
    /\ (v_pc[i] = "exit" /\ v_pc'[i] # "exit") =>
          IF FatalRunError(v_cur[i])
          THEN /\ v_pc'[i] = "dead"
               /\ \A j \in DOMAIN v_pc : j # i => v_pc'[j] = v_pc[j]
               /\ UNCHANGED <<m_pc, m_ret, exit_status, vcpus, devVars>>
          ELSE v_pc'[i] \in {"run", "in_dev"}
    /\ (v_pc[i] = "in_dev" /\ v_pc'[i] # "in_dev") => v_pc'[i] = "run"
    /\ (v_pc'[i] = "dead" /\ v_pc[i] # "dead") =>
          v_pc[i] = "exit" /\ FatalRunError(v_cur[i])
    /\ v_pc[i] = "dead" => v_pc'[i] = "dead"

\* C7: a vCPU thread leaves its exit loop only on a failure of run() whose
\* errno is neither EAGAIN nor EINTR; after every other result it goes on
\* to call run() again (through the device access of an I/O exit); the
\* step that ends a thread changes neither the other vCPU threads, nor the
\* monitor, nor the process's exit status, and an ended thread stays ended.
C7_VcpuLoopTermination == [][\A i \in DOMAIN v_pc : C7_Step(i)]_vars

\* One vCPU thread has ended while another is in its loop and the monitor
\* is in control_loop.
C7_Witness ==
    /\ m_pc \in LoopPcs
    /\ \E i, j \in DOMAIN v_pc :
          i # j /\ v_pc[i] = "dead" /\ v_pc[j] \in {"run", "exit", "in_dev"}

\* The step of the monitor that handles an event whose token maps to Exit.
ExitHandled ==
    /\ m_pc = "dispatch"
    /\ Lookup(epoll.dispatch_table, events[ev_idx]) = "Exit"
    /\ (m_pc' # m_pc \/ m_ret' # m_ret \/ exit_status' # exit_status)

\* C4 as stated: handling an Exit token always drains exit_evt and ends the
\* process with status 0, and never returns an Err from control_loop.
C4_ExitAlwaysExits ==
    [][ExitHandled =>
          /\ exit_evt' < exit_evt
          /\ exit_status' = {0}
          /\ m_ret' = m_ret]_vars

\* C4: handling an Exit token reads exit_evt once and then either the read
\* succeeded, the counter is reset and the process ends with status 0, or
\* the read failed and control_loop returns Err(EventFd) with the counter
\* and the process untouched; it never goes on to the next event, and
\* nothing steps once the process has ended.
C4_ExitArm ==
    [][/\ ExitHandled =>
            \/ /\ exit_evt > 0 /\ exit_evt' = 0
               /\ exit_status' = {0}
               /\ UNCHANGED <<m_pc, m_ret, events, ev_idx>>
            \/ /\ m_pc' = "idle" /\ m_ret' = "EventFd"
               /\ UNCHANGED <<exit_evt, exit_status>>
       /\ exit_status # {} => UNCHANGED vars]_vars

\* The process has ended with status 0 from the Exit arm while a further
\* event of the same poll was pending.
C4_Witness ==
    /\ exit_status = {0}
    /\ m_pc = "dispatch" /\ ev_idx < Len(events)

\* exit_evt is raised while the monitor is in control_loop.
ExitRaisedInLoop == exit_evt > 0 /\ m_pc \in LoopPcs /\ exit_status = {}

\* control_loop has just returned an Err.
LoopReturnedErr == m_pc = "idle" /\ m_ret \in {"EpollError", "EventFd", "Serial"}

\* The poll cycle in progress has reported the Exit token.
ExitReported ==
    /\ m_pc \in {"dispatch", "stdin_queue", "stdin_locked"}
    /\ \E k \in 1..Len(events) :
          Lookup(epoll.dispatch_table, events[k]) = "Exit"

\* C3 as stated: once exit_evt is raised while the monitor is in
\* control_loop, the process eventually ends with status 0.
C3_ExitAlwaysReached == ExitRaisedInLoop ~> exit_status = {0}

\* C3: once exit_evt is raised while the monitor is in control_loop, then
\* under a fair scheduling of the monitor, whatever the vCPU threads do,
\* eventually the process ends with status 0 or control_loop returns an
\* Err; and the monitor starts no further poll after one that reported the
\* Exit token.
C3_ExitOrErr ==
    /\ ExitRaisedInLoop ~> (exit_status = {0} \/ LoopReturnedErr)
    /\ [][ExitReported => m_pc' # "epoll_wait"]_vars

\* The process has ended with status 0 while a vCPU thread was still in
\* its exit loop.
C3_Witness ==
    /\ exit_status = {0}
    /\ \E i \in DOMAIN v_pc : v_pc[i] \in {"run", "exit", "in_dev"}

\* C5: one Stdin event reads at most 64 bytes; the bytes handed to the
\* UART are exactly the `count` bytes the read returned, the head of `out`;
\* they are appended to the receive queue under the UART's Mutex, and over
\* any sequence of Stdin events the queue has received the bytes of host
\* stdin in the order they were read, none lost, repeated or padded.
C5_StdinForwarding ==
    /\ [](/\ count <= 64
          /\ serial_in = StdinBytes(0, Len(serial_in))
          /\ m_pc \in {"stdin_queue", "stdin_locked"} =>
                /\ count >= 0 /\ Len(out) = 64
                /\ count = 0 => stdin_hup /\ stdin_pos = stdin_typed
                /\ SubSeq(out, 1, count) = StdinBytes(stdin_pos - count, stdin_pos)
          /\ m_pc \in LoopPcs => Len(serial_in) = stdin_pos - count)
    /\ [][/\ stdin_pos' - stdin_pos <= 64
          /\ serial_in' # serial_in =>
                /\ dev_lock["serial"] = MonitorThread
                /\ serial_in' =
                      serial_in \o StdinBytes(stdin_pos - count, stdin_pos)]_vars

\* More bytes than one read takes have reached the UART, by more than one
\* Stdin event.
C5_Witness ==
    /\ Len(serial_in) > 64
    /\ Len(serial_in) = stdin_typed
    /\ m_pc = "epoll_wait"

C6_Step(i) ==
    LET e == v_cur[i]
        owner == IF e.kind \in {"IoIn", "IoOut"} THEN PortOwner(e.port) ELSE {}
    IN  /\ (v_pc[i] = "exit" /\ v_pc'[i] # "exit") =>
              IF owner # {}
              THEN /\ v_pc'[i] = "in_dev"
                   /\ \A d \in owner :
                         dev_lock' = [dev_lock EXCEPT ![d] = VcpuThread(i)]
                   /\ v_cur'[i] = e
                   /\ UNCHANGED <<exit_evt, serial_in, io_bus>>
              ELSE /\ v_pc'[i] \in {"run", "dead"}
                   /\ UNCHANGED devVars
        /\ (v_pc[i] = "in_dev" /\ v_pc'[i] # "in_dev") =>
              /\ v_pc'[i] = "run"
              /\ \A d \in owner : dev_lock' = [dev_lock EXCEPT ![d] = Free]
              /\ exit_evt' = IF e.kind = "IoOut" /\ e.port = 100 /\ e.data = 254
                             THEN exit_evt + 1 ELSE exit_evt
              /\ serial_in' = IF e.kind = "IoIn" /\ e.port = 1016
                                 /\ serial_in # <<>>
                              THEN Tail(serial_in) ELSE serial_in
        /\ (v_pc'[i] = "in_dev" /\ v_pc[i] # "in_dev") =>
              v_pc[i] = "exit" /\ owner # {}

\* C6: after run() returns IoIn(port) or IoOut(port, data), the thread
\* makes one access of the I/O bus at that port before it calls run()
\* again, a read for IoIn and a write with the data for IoOut, which
\* reaches the device that owns the port under that device's Mutex and is
\* lost without effect when no device owns it; after any other result the
\* thread makes no bus access and changes no device.
C6_ExitDispatch == [][\A i \in DOMAIN v_pc : C6_Step(i)]_vars

\* The thread is inside the i8042 for the write of an IoOut exit.
C6_Witness ==
    \E i \in DOMAIN v_pc :
        /\ v_pc[i] = "in_dev" /\ v_cur[i].kind = "IoOut"
        /\ dev_lock["i8042"] = VcpuThread(i)

\* A token that maps to no handler: slot 0, or no slot of the table.
UnknownToken(t) == t = 0 \/ t >= Len(epoll.dispatch_table)

\* C9: an event whose token is 0, or is not below the length of the
\* dispatch table, is passed over: the loop goes on to the next event or
\* the next poll, without a panic and without a change of exit_evt, of the
\* UART's queue, of the read position of stdin or of the outcome.
C9_UnknownTokensIgnored ==
    [][(m_pc = "dispatch" /\ UnknownToken(events[ev_idx])) =>
          /\ m_pc' \in {"dispatch", "epoll_wait"}
          /\ UNCHANGED <<m_ret, exit_status, exit_evt, serial_in, stdin_pos>>]_vars

\* The threads that take part in the barrier of start.
BarrierParties == {VcpuThread(i) : i \in DOMAIN v_pc} \cup {MonitorThread}

\* Whether vCPU thread i has called run().
HasRun(i) == <<"run", VcpuThread(i), <<>>>> \in Range(v_calls[i])

\* C1: the barrier of start releases exactly when the vcpu_count vCPU
\* threads and the monitor, vcpu_count + 1 threads, have called wait():
\* until then no vCPU thread has called run() and the monitor is not in
\* control_loop, and once they have the barrier has released.
C1_BarrierRelease ==
    /\ ((\E i \in DOMAIN v_pc : HasRun(i) \/ v_pc[i] \in PastBarrierPcs)
        \/ m_pc \in LoopPcs)
           => arrived = BarrierParties
    /\ barrier.generation_id > 0 <=> arrived = BarrierParties

\* C11: patching a CPUID image that has been patched changes nothing:
\* patch_cpuid(patch_cpuid(c)) = patch_cpuid(c) for the image c the backend
\* reported, whose patch is the image the VM keeps.
C11_PatchIdempotent ==
    /\ cpuid = patch_cpuid(cpuid_reported)
    /\ patch_cpuid(cpuid) = cpuid
    /\ patch_cpuid(patch_cpuid(cpuid_reported)) = patch_cpuid(cpuid_reported)

\* The patch has changed every entry of a reported image of more than one
\* entry.
C11_Witness ==
    /\ Len(cpuid_reported) > 1
    /\ \A k \in 1..Len(cpuid_reported) : cpuid[k] # cpuid_reported[k]

\* The values of m_pc inside Vm::new, in the order of its steps.
NewPcSeq ==
    <<"new_open_kernel", "new_create_vm", "new_guest_memory", "new_with_regions",
      "new_set_tss", "new_irq_chip", "new_pit2", "new_cpuid",
      "new_device_manager", "new_irqfd", "new_epoll", "new_add_stdin",
      "new_add_exit">>

NewPcs == Range(NewPcSeq)

\* The error kind Vm::new returns when the step at a value of m_pc fails.
NewErrorOf(pc) ==
    CASE pc = "new_open_kernel" -> "KernelFile"
      [] pc = "new_create_vm" -> "VmCreate"
      [] pc \in {"new_guest_memory", "new_with_regions"} -> "GuestMemory"
      [] pc \in {"new_set_tss", "new_irq_chip", "new_pit2", "new_cpuid"} -> "VmSetup"
      [] pc = "new_device_manager" -> "DeviceManager"
      [] pc = "new_irqfd" -> "Irq"
      [] pc \in {"new_epoll", "new_add_stdin", "new_add_exit"} -> "EpollError"

\* The effects of all the steps of Vm::new are there.
VmComplete ==
    /\ regions >= 1
    /\ kvm_calls =
          <<<<"create_vm", 0>>>>
          \o [k \in 1..regions |-> <<"set_user_memory_region", k - 1>>]
          \o <<<<"set_tss_address", 0>>, <<"create_irq_chip", 0>>,
               <<"create_pit2", 1>>, <<"get_supported_cpuid", 0>>,
               <<"register_irqfd", 4>>>>
    /\ cpuid # <<>>
    /\ supplied = <<"Stdin", "Exit">>
    /\ Cardinality(epoll.interest) = 2

\* C12: a step of Vm::new that fails ends Vm::new with the error kind of
\* that step and without an effect of its own; after it no step of Vm::new
\* runs and nothing of the VM changes; and a Vm value is there (Ok is
\* returned, by the last step only) only with the effects of every step.
C12_NoPartialVm ==
    /\ [](/\ m_pc = "no_vm" => m_ret \in {NewErrorOf(pc) : pc \in NewPcs}
          /\ m_pc \notin NewPcs \cup {"no_vm"} => VmComplete)
    /\ [][/\ (m_pc \in NewPcs /\ m_pc' = "no_vm") =>
                /\ m_ret' = NewErrorOf(m_pc)
                /\ UNCHANGED <<newVars, epollVars, devVars, startVars, vcpuVars>>
          /\ m_pc = "no_vm" =>
                UNCHANGED <<m_pc, m_ret, newVars, epollVars, devVars, startVars,
                            loopVars, vcpuVars>>
          /\ (m_ret' = "Ok" /\ m_ret # "Ok") => m_pc = "new_add_exit"
          /\ (m_pc \in NewPcs /\ m_pc' \notin NewPcs \cup {"no_vm"}) =>
                m_pc = "new_add_exit" /\ m_ret' = "Ok"]_vars

\* Vm::new has failed at the registration of the serial IRQ, after the
\* device manager and before the event poller.
C12_Witness ==
    /\ m_pc = "no_vm" /\ m_ret = "Irq"
    /\ Len(kvm_calls) >= 6
    /\ epoll.dispatch_table = <<>>

\* The sub-steps the specification lists for configure, in its order:
\* call, arguments, error kind.
ExpectedConfigure ==
    << <<"set_cpuid2", <<"vm.cpuid">>, "SetSupportedCpusFailed">>,
       <<"setup_msrs", <<>>, "MSRSConfiguration">>,
       <<"setup_regs",
         <<"kernel_start_addr", "BOOT_STACK_POINTER", "ZERO_PAGE_START">>,
         "REGSConfiguration">>,
       <<"setup_fpu", <<>>, "FPUConfiguration">>,
       <<"setup_sregs", <<"vm_memory">>, "SREGSConfiguration">>,
       <<"set_lint", <<>>, "LocalIntConfiguration">> >>

IsConfigureCall(c) == c[1] \in {ExpectedConfigure[k][1] : k \in 1..6}

\* The calls of configure made for a vCPU so far.
ConfigureCallsOf(calls) == SelectSeq(calls, IsConfigureCall)

\* C13: the calls configure has made for a vCPU are the first ones of
\* CPUID, MSRs, general-purpose registers (entry address, boot stack
\* pointer, zero page), FPU, special registers, LAPIC, in this order, and
\* all six once configure has succeeded; when configure fails, the calls
\* made are those before the failing sub-step, none after it, and the
\* error returned is the kind of that sub-step, which no other sub-step
\* has.
C13_ConfigureOrder ==
    /\ [](/\ \A i \in DOMAIN v_pc :
                LET cs == ConfigureCallsOf(v_calls[i]) IN
                /\ Len(cs) <= 6
                /\ \A k \in 1..Len(cs) :
                      /\ cs[k][1] = ExpectedConfigure[k][1]
                      /\ cs[k][3] = ExpectedConfigure[k][2]
                /\ v_pc[i] \notin {"unborn", "created", "dropped"} => Len(cs) = 6
          /\ Cardinality({ConfigureSteps[k][2] : k \in 1..Len(ConfigureSteps)}) = 6)
    /\ [][(m_pc = "start_configure" /\ m_pc' # m_pc) =>
             LET n == Len(ConfigureCallsOf(v_calls'[cpu_id])) IN
             IF m_pc' = "start_spawn"
             THEN n = 6 /\ m_ret' = m_ret
             ELSE /\ m_pc' = "idle" /\ n < 6
                  /\ m_ret' = ExpectedConfigure[n + 1][3]
                  /\ v_pc'[cpu_id] = "dropped"]_vars

\* configure has failed at the FPU, after the registers.
C13_Witness ==
    /\ m_ret = "FPUConfiguration"
    /\ \E i \in DOMAIN v_pc :
          /\ v_pc[i] = "dropped"
          /\ Len(ConfigureCallsOf(v_calls[i])) = 3

\* C14: every call of configure for a vCPU is made by the thread of that
\* vCPU, the one that calls run() for it; and when that thread has called
\* run(), configure has been applied once, whole, before the run().
C14_ConfigureOnVcpuThread ==
    \A i \in DOMAIN v_pc :
        /\ \A k \in 1..Len(v_calls[i]) :
              IsConfigureCall(v_calls[i][k]) => v_calls[i][k][2] = VcpuThread(i)
        /\ HasRun(i) =>
              /\ Len(ConfigureCallsOf(v_calls[i])) = 6
              /\ v_calls[i][Len(v_calls[i])][1] = "run"

\* C15: the signal handler of the vCPU threads is registered at most once
\* in the process, whatever the number of vCPU threads.
C15_HandlerInstalledOnce == handler_installs <= 1

\* The vCPUs whose thread start has spawned.
Spawned == Range(vcpus)

\* C16: when control_loop has returned to start and start has returned to
\* its caller, every vCPU thread start spawned has been joined, so it has
\* ended.
C16_JoinedOnReturn ==
    LoopReturnedErr => \A i \in Spawned : v_pc[i] \in {"dead", "panicked"}

\* start has returned the error of the stdin read or of the UART enqueue.
StdinErrorReturned == m_pc = "idle" /\ m_ret = "Serial"

\* C17: a failure while a Stdin token is handled makes control_loop, and
\* with it start, return the error; and once start has returned it no
\* vCPU thread gets a further exit from run(), that is, none goes on
\* executing the guest.
C17_StdinErrorStopsVm ==
    [][/\ (m_pc \in {"stdin_queue", "stdin_locked"} /\ m_pc' = "idle") =>
             m_ret' = "Serial"
       /\ StdinErrorReturned =>
             \A i \in DOMAIN v_pc : ~(v_pc[i] = "run" /\ v_pc'[i] = "exit")]_vars

\* The values of m_pc at which the barrier of start exists.
BarrierPcs ==
    {"start_clone", "start_vcpu_new", "start_configure", "start_spawn",
     "start_wait", "start_waiting"} \cup LoopPcs

\* C20: start computes the arity vcpu_count + 1 without overflow (no panic
\* in the addition and no wrap-around): the barrier it creates has
\* vcpu_count + 1 parties and never none.
C20_BarrierArity ==
    /\ m_pc # "panicked"
    /\ m_pc \in BarrierPcs =>
          /\ barrier.num_threads = vcpu_count + 1
          /\ barrier.num_threads > 0


\* The device a vCPU thread is inside: the one its pending bus call hits.
DeviceOf(i) ==
    LET calls == BusCalls(v_cur[i])
    IN  IF v_pc[i] # "in_dev" \/ calls = <<>> THEN {}
        ELSE {r.dev : r \in BusResolve(v_bus[i], calls[1].addr)}

\* The threads inside device d: the vCPU threads in its read or write, and
\* for the serial UART the monitor in queue_input_bytes.
Inside(d) ==
    {VcpuThread(i) : i \in {j \in DOMAIN v_pc : d \in DeviceOf(j)}}
    \cup (IF d = "serial" /\ m_pc = "stdin_locked" THEN {MonitorThread} ELSE {})

\* The vCPU threads whose pending bus call hits device d and that have not
\* entered it yet.
WaitingFor(d) ==
    {i \in DOMAIN v_pc :
        /\ v_pc[i] = "exit" /\ BusCalls(v_cur[i]) # <<>>
        /\ d \in {r.dev : r \in BusResolve(v_bus[i], BusCalls(v_cur[i])[1].addr)}}

\* C18: per-device mutual exclusion.  In every reachable state at most one
\* thread is inside a device: the monitor's queue_input_bytes on the serial
\* UART never overlaps a serial read or write of a vCPU thread, two vCPU
\* threads are never inside the same device, and the thread inside is the
\* holder of the device's Mutex.
C18_DeviceMutex ==
    \A d \in Devices :
        /\ Cardinality(Inside(d)) <= 1
        /\ \A t \in Inside(d) : dev_lock[d] = t
        /\ Inside(d) = {} => dev_lock[d] = Free

\* C18 witness: a vCPU thread is inside the serial UART while the monitor
\* is at its lock() with bytes to queue and another vCPU thread has a
\* pending access to the same device.
C18_Witness ==
    /\ \E i \in DOMAIN v_pc : Inside("serial") = {VcpuThread(i)}
    /\ m_pc = "stdin_queue" /\ count > 0
    /\ WaitingFor("serial") # {}


\* Whether the ranges of a bus are pairwise disjoint.
BusDisjoint(bus) ==
    \A r \in bus : \A q \in bus : r # q => ~RangeOverlaps(r, q.base, q.len)

\* The shared bus and the clones handed to the vCPU threads.
Buses == {io_bus} \cup {v_bus[i] : i \in DOMAIN v_bus}

\* Ports at the edges of the three ranges and outside them.
ProbePorts ==
    {0, 96, 97, 100, 101, 128, 1015, 1016, 1023, 1024, 3319, 3320, 3327, 3328}

\* The devices a bus resolves a port to.
HitDevices(bus, port) == {r.dev : r \in BusResolve(bus, port)}

\* A vCPU thread at the match of an exit whose bus call is to a port
\* outside the three ranges.
PendingMiss(i) ==
    /\ i \in DOMAIN v_pc /\ v_pc[i] = "exit"
    /\ BusCalls(v_cur[i]) # <<>>
    /\ PortOwner(BusCalls(v_cur[i])[1].addr) = {}

C19_State ==
    \A bus \in Buses :
        /\ BusDisjoint(bus)
        /\ bus # {} =>
              /\ AllRegistered(bus) /\ Cardinality(bus) = 3
              /\ \A p \in ProbePorts : HitDevices(bus, p) = PortOwner(p)

C19_Step ==
    /\ RegisterFails => io_bus # {} /\ io_bus' = io_bus
    /\ (io_bus = {} /\ m_pc = "idle" /\ m_pc' # "idle") =>
          /\ m_pc' = "start_barrier"
          /\ AllRegistered(io_bus') /\ Cardinality(io_bus') = 3
    /\ \A i \in VcpuIds :
          (PendingMiss(i) /\ v_pc'[i] # "exit") =>
              /\ v_pc'[i] = "run"
              /\ UNCHANGED <<devVars, m_pc, m_ret, exit_status>>

\* C19: the ranges of the I/O bus are pairwise disjoint in every reachable
\* state.  The three insertions of register_devices on a fresh bus (serial
\* at 0x3f8 length 8, i8042 at 0x61 length 4, PCI configuration at 0xcf8
\* length 8) all succeed and each port resolves to the device whose range
\* holds it; a registration fails only by an overlap and then leaves the
\* map as it was; an access to a port outside the three ranges hits no
\* device, changes nothing and the exit loop goes on.
C19_BusRangesDisjoint == [](C19_State) /\ [][C19_Step]_vars

\* C19 witness: a second register_devices has failed on the overlap and
\* left the three ranges in place, while the vCPU thread is at the match of
\* a read of port 0x80, which no device owns.
C19_Witness ==
    /\ m_ret = "BusError" /\ AllRegistered(io_bus) /\ Cardinality(io_bus) = 3
    /\ \E i \in DOMAIN v_pc :
          /\ PendingMiss(i) /\ v_cur[i].port = 128
          /\ AllRegistered(v_bus[i])


\* The VM-level calls of a whole Vm::new over n regions, in the order the
\* specification lists them.
ExpectedNewCalls(n) ==
    <<<<"create_vm", 0>>>>
    \o [k \in 1..n |-> <<"set_user_memory_region", k - 1>>]
    \o <<<<"set_tss_address", 0>>, <<"create_irq_chip", 0>>,
         <<"create_pit2", 1>>, <<"get_supported_cpuid", 0>>,
         <<"register_irqfd", 4>>>>

\* The number of VM-level calls made when Vm::new is at a value of m_pc.
NewCallsDone(pc) ==
    CASE pc \in {"new_open_kernel", "new_create_vm"} -> 0
      [] pc = "new_guest_memory" -> 1
      [] pc = "new_with_regions" -> 1 + region_idx
      [] pc = "new_set_tss" -> 1 + regions
      [] pc = "new_irq_chip" -> 2 + regions
      [] pc = "new_pit2" -> 3 + regions
      [] pc = "new_cpuid" -> 4 + regions
      [] pc \in {"new_device_manager", "new_irqfd"} -> 5 + regions
      [] OTHER -> 6 + regions

\* What has been subscribed to the poller when Vm::new is at a value of
\* m_pc.
NewSubscribed(pc) ==
    CASE pc = "new_add_exit" -> <<"Stdin">>
      [] pc \in NewPcs -> <<>>
      [] OTHER -> <<"Stdin", "Exit">>

\* The position of a value of m_pc in Vm::new.
NewPosition(pc) == CHOOSE k \in 1..Len(NewPcSeq) : NewPcSeq[k] = pc

\* The position of a call in the calls made so far, 0 when it was not made.
CallIndex(call) ==
    IF \E k \in 1..Len(kvm_calls) : kvm_calls[k][1] = call
    THEN CHOOSE k \in 1..Len(kvm_calls) : kvm_calls[k][1] = call
    ELSE 0

C21_State ==
    /\ m_pc # "no_vm" =>
          /\ kvm_calls = SubSeq(ExpectedNewCalls(regions), 1, NewCallsDone(m_pc))
          /\ supplied = NewSubscribed(m_pc)
          /\ (m_pc \in NewPcs /\ NewPosition(m_pc) <= NewPosition("new_epoll"))
                => epoll.dispatch_table = <<>>
    /\ m_pc = "no_vm" =>
          /\ \E n \in 1..2 : \E k \in 0..(6 + n) :
                kvm_calls = SubSeq(ExpectedNewCalls(n), 1, k)
          /\ \E k \in 0..2 : supplied = SubSeq(<<"Stdin", "Exit">>, 1, k)
    /\ CallIndex("create_pit2") > 0 =>
          /\ CallIndex("create_irq_chip") > 0
          /\ CallIndex("create_irq_chip") < CallIndex("create_pit2")
    /\ CallIndex("register_irqfd") > 0 =>
          /\ CallIndex("create_irq_chip") > 0
          /\ CallIndex("create_irq_chip") < CallIndex("register_irqfd")
    /\ "Exit" \in Range(supplied) => supplied = <<"Stdin", "Exit">>

C21_Step ==
    (m_pc \in NewPcs /\ m_pc' # m_pc) =>
        \/ m_pc' = "no_vm"
        \/ /\ m_pc = "new_add_exit" /\ m_pc' = "idle"
        \/ /\ m_pc # "new_add_exit"
           /\ m_pc' = NewPcSeq[NewPosition(m_pc) + 1]
           /\ m_pc = "new_with_regions" => region_idx' = regions

\* C21: Vm::new performs its steps in the order of the specification, each
\* only after the one before it succeeded: kernel file, backend VM, guest
\* memory, one memory slot per region with slot number = region index
\* (ending at the first failure), TSS address, irqchip, PIT with the dummy
\* speaker flag, CPUID, device manager, serial_evt on IRQ line 4, event
\* poller, stdin, exit_evt.  The irqchip is created before the PIT and
\* before the IRQ registration, and stdin is subscribed before exit_evt.
C21_NewOrder == [](C21_State) /\ [][C21_Step]_vars

\* C21 witness: Vm::new over two regions is at its last step, the
\* subscription of exit_evt, with stdin subscribed.
C21_Witness ==
    /\ m_pc = "new_add_exit" /\ regions = 2
    /\ Len(kvm_calls) = 8 /\ supplied = <<"Stdin">>


\* The error kinds of the set-up of one vCPU in start: Vcpu::new, the
\* sub-steps of configure, the spawn of the thread.
VcpuSetupErrors ==
    {"VcpuFd", "VcpuSpawn"}
    \cup {ConfigureSteps[k][2] : k \in 1..Len(ConfigureSteps)}

\* start has returned the error of a vCPU's set-up (and has at most been
\* called again since, which fails at register_devices).
StartFailedInSetup ==
    /\ m_pc = "idle" /\ m_ret \in VcpuSetupErrors \cup {"BusError"}
    /\ MonitorThread \notin arrived

\* C22: when start fails while it sets up vCPU k, it returns the error of
\* the failing step without having waited on the barrier, and the vCPU
\* threads it has spawned never call run(): each one is before the barrier
\* or blocked at it, and stays so.
C22_PartialStartBlocks ==
    /\ [](StartFailedInSetup =>
            \A i \in Spawned :
               /\ ~HasRun(i)
               /\ v_pc[i] \in {"sig", "barrier", "waiting", "panicked"})
    /\ [][(m_pc \in {"start_vcpu_new", "start_configure", "start_spawn"}
            /\ m_pc' = "idle") =>
              /\ m_ret' \in VcpuSetupErrors
              /\ MonitorThread \notin arrived'
              /\ barrier' = barrier]_vars


\* The values of m_pc inside start before control_loop.
StartPcs ==
    {"start_barrier", "start_clone", "start_vcpu_new", "start_configure",
     "start_spawn", "start_wait", "start_waiting"}

\* The error kinds control_loop returns.
LoopErrors == {"EpollError", "EventFd", "Serial"}

C23_Step ==
    /\ (m_pc \in LoopPcs /\ m_pc' \notin LoopPcs) =>
          /\ m_pc' = "idle" /\ m_ret' \in LoopErrors
          /\ exit_status' = {}
    /\ exit_status' # exit_status =>
          /\ m_pc = "dispatch" /\ m_pc' = "dispatch"
          /\ Lookup(epoll.dispatch_table, events[ev_idx]) = "Exit"
          /\ exit_status' = {0}
    /\ (m_pc \in StartPcs /\ m_pc' = "idle") => m_ret' \in VcpuSetupErrors
    /\ (m_pc = "idle" /\ m_ret' # m_ret) => m_ret' \in {"none", "BusError"}

\* C23: control_loop never returns Ok.  An execution of it that ends, ends
\* by the end of the process with status 0 in the arm of an Exit token or
\* by the return of an Err (of the poll wait, of the read of exit_evt, of
\* the stdin read or of the UART enqueue); start therefore never returns
\* Ok: each of its returns carries an error, and the only Ok the caller
\* sees is that of Vm::new, before start is called.
C23_NeverOk ==
    /\ [](m_ret = "Ok" => m_pc = "idle" /\ vcpus = <<>> /\ arrived = {})
    /\ [][C23_Step]_vars

\* C23 witness: control_loop, entered with vCPU threads running and after
\* a read of stdin, has returned the error of the UART enqueue through
\* start.
C23_Witness ==
    /\ m_pc = "idle" /\ m_ret = "Serial"
    /\ stdin_pos > 0 /\ Spawned # {}
    /\ arrived = BarrierParties


\* The threads of the process.
Threads == BarrierParties

\* The locks: the Mutex of each device and the lock of host stdin.
Locks == Devices \cup {"stdin"}

\* The locks a thread holds.  The monitor holds the lock of stdin
\* (stdin.lock()) from the read to the end of the Stdin arm.
Holds(t) ==
    {d \in Devices : dev_lock[d] = t}
    \cup (IF t = MonitorThread /\ m_pc \in {"stdin_queue", "stdin_locked"}
          THEN {"stdin"} ELSE {})

\* The locks a thread has requested and not yet got: the monitor at
\* serial.lock(), a vCPU thread at the bus call that hits a device.
Wants(t) ==
    IF t = MonitorThread
    THEN (IF m_pc = "stdin_queue" THEN {"serial"} ELSE {})
    ELSE {d \in Devices : t[2] \in WaitingFor(d)}

\* Thread t waits for a lock thread u holds (u may be t: a Mutex locked
\* again by its holder blocks).
WaitsFor(t, u) == Wants(t) \cap Holds(u) # {}

\* No set of threads in which each waits for a lock held by one of them;
\* no thread holds a lock while it requests another but the monitor, which
\* holds stdin's; no vCPU thread holds more than one lock.
C24_NoWaitCycle ==
    /\ \A S \in SUBSET Threads :
          S # {} => \E t \in S : \A u \in S : ~WaitsFor(t, u)
    /\ \A t \in Threads :
          /\ t # MonitorThread => Cardinality(Holds(t)) <= 1
          /\ Wants(t) # {} => Holds(t) \subseteq {"stdin"}

\* Every thread that requests the Mutex of a device gets it, unless the
\* process ends first.
C24_RequestsServed ==
    /\ (m_pc = "stdin_queue") ~> (dev_lock["serial"] = MonitorThread \/ ~Running)
    /\ \A i \in VcpuIds : \A d \in Devices :
          (i \in DOMAIN v_pc /\ i \in WaitingFor(d))
             ~> (dev_lock[d] = VcpuThread(i) \/ ~Running)

\* Every Mutex that is held is released, and a free Mutex some thread
\* waits for is taken by a thread, unless the process ends first.
C24_LocksTurnOver ==
    \A d \in Devices :
       /\ (dev_lock[d] # Free) ~> (dev_lock[d] = Free \/ ~Running)
       /\ (dev_lock[d] = Free /\ \E t \in Threads : d \in Wants(t))
             ~> (dev_lock[d] # Free \/ ~Running)

\* C24 as stated: after the barrier no state has a cycle of threads each
\* waiting for a lock another holds, and every thread that requests the
\* Mutex of a device eventually gets it, provided the holders of locks
\* keep running.
C24_DeadlockFree == [](C24_NoWaitCycle) /\ C24_RequestsServed

\* C24, amended: no state has a cycle of threads each waiting for a lock
\* another holds; while the threads keep running every held Mutex is
\* released and a free Mutex that is waited for is taken by some thread,
\* so the threads as a whole never stop; a single waiter may be overtaken
\* by the others for ever.
C24_NoDeadlock == [](C24_NoWaitCycle) /\ C24_LocksTurnOver

\* C24 witness: the monitor, holding the lock of stdin, and a vCPU thread
\* both wait for the Mutex of the serial UART, which another vCPU thread
\* holds.
C24_Witness ==
    /\ Wants(MonitorThread) = {"serial"} /\ Holds(MonitorThread) = {"stdin"}
    /\ \E i \in DOMAIN v_pc : \E j \in DOMAIN v_pc :
          /\ i # j
          /\ Holds(VcpuThread(i)) = {"serial"}
          /\ Wants(VcpuThread(j)) = {"serial"}
          /\ WaitsFor(VcpuThread(j), VcpuThread(i))
          /\ WaitsFor(MonitorThread, VcpuThread(i))


\* The values of v_pc of a vCPU whose thread exists.
ThreadPcs == {"sig", "barrier", "waiting", "panicked"} \cup PastBarrierPcs

\* The calls on the handle of vCPU i that thread t made.
CallsBy(i, t) == SelectSeq(v_calls[i], LAMBDA c : c[2] = t)

C25_State ==
    /\ vcpus = [k \in 1..Len(vcpus) |-> k - 1]
    /\ Len(vcpus) <= vcpu_count
    /\ m_pc \in {"start_wait", "start_waiting"} \cup LoopPcs =>
          Len(vcpus) = vcpu_count
    /\ \A i \in DOMAIN v_pc :
          /\ v_pc[i] \in ThreadPcs <=> i \in Spawned
          /\ v_pc[i] # "unborn" =>
                Len(SelectSeq(v_calls[i], LAMBDA c : c[1] = "create_vcpu")) = 1
          /\ \A k \in 1..Len(v_calls[i]) :
                /\ v_calls[i][k][2] \in {MonitorThread, VcpuThread(i)}
                /\ v_calls[i][k][1] = "run" <=> v_calls[i][k][2] = VcpuThread(i)
                /\ v_calls[i][k][2] = VcpuThread(i) =>
                      \A j \in (k + 1)..Len(v_calls[i]) :
                         v_calls[i][j][2] = VcpuThread(i)
          /\ CallsBy(i, VcpuThread(i)) # <<>> => i \in Spawned

C25_Step ==
    /\ vcpus' # vcpus =>
          /\ cpu_id = Len(vcpus) /\ vcpus' = Append(vcpus, cpu_id)
          /\ v_pc[cpu_id] = "configured" /\ v_pc'[cpu_id] = "sig"
    /\ \A i \in DOMAIN v_pc :
          (i \in Spawned /\ v_calls'[i] # v_calls[i]) =>
             /\ v_pc[i] = "run" /\ m_pc' = m_pc
             /\ v_calls'[i] = Append(v_calls[i], <<"run", VcpuThread(i), <<>>>>)
    /\ exit_evt' < exit_evt =>
          /\ m_pc = "dispatch" /\ exit_evt' = 0
          /\ UNCHANGED vcpuVars
    /\ exit_evt' > exit_evt =>
          /\ UNCHANGED m_pc
          /\ \E i \in DOMAIN v_pc : v_pc[i] = "in_dev" /\ v_pc'[i] = "run"

\* C25: start creates the handles of the vCPUs 0, 1, .. in increasing
\* order, exactly vcpu_count of them once its loop is over, and spawns one
\* thread per handle; after the spawn the calls on a handle (run) are made
\* by its own thread only, never by the monitor or another vCPU thread;
\* and exit_evt is read by the monitor thread only (the vCPU threads only
\* raise it).
C25_HandleOwnership == [](C25_State) /\ [][C25_Step]_vars

\* C25 witness: both threads of a VM of two vCPUs have called run() and
\* the monitor has read exit_evt and ended the process.
C25_Witness ==
    /\ vcpu_count = 2 /\ vcpus = <<0, 1>>
    /\ HasRun(0) /\ HasRun(1)
    /\ exit_status = {0} /\ exit_evt = 0

=============================================================================
